---- MODULE Spec2Model ----
(***************************************************************************)
(* Spider Solitaire (4 suits, undo history, auto-play) as a state machine. *)
(* The state is the React component state of Solitaire(): gameState,       *)
(* history, gameIsOver, dragState, plus the queue of setTimeout callbacks  *)
(* scheduled by autoPlayNextMove and a flag recording an uncaught          *)
(* TypeError of an event handler.                                          *)
(*                                                                         *)
(* Piles and card rows are indexed from 0 as in the source; a pile is a    *)
(* TLA+ sequence (index 1 = bottom of the pile), so row r of pile p is     *)
(* p[r + 1].                                                               *)
(***************************************************************************)
EXTENDS Integers, Sequences, FiniteSets, TLC

VARIABLES gameState, history, gameIsOver, timers, dragState, fault

vars == <<gameState, history, gameIsOver, timers, dragState, fault>>

\* ------------------------------------------------------------ constants

SUITS == <<"S", "H", "D", "C">>

RANKS == <<"A", "2", "3", "4", "5", "6", "7", "8", "9", "10", "J", "Q", "K">>

\* Number of tableau columns.
NumCols == 10

\* Length of a complete King-to-Ace run.
RunLen == 13

\* Number of concatenated decks.
NumDecks == 2

\* Suit count passed by generateInitialState.
GameSuits == 4

\* dragState is << >> for null and <<[fromCol, fromRow]>> while a drag is in
\* progress.
NULL == << >>

\* The value of an array element read at or past the array's length.
UNDEFINED == "undefined"

\* Largest value of gameState.moves the model explores.
MaxMoves == 7

\* Largest number of setTimeout callbacks pending at once.
MaxTimers == 2

\* Number of repeated auto-play steps followed from a state.
CycleDepth == 6

Cols == 0 .. (NumCols - 1)

\* ------------------------------------------------- JavaScript primitives

\* Array.prototype.indexOf: first 0-based position of x, or -1.
IndexOf(seq, x) ==
    IF \E i \in 1 .. Len(seq) : seq[i] = x
    THEN (CHOOSE i \in 1 .. Len(seq) :
              /\ seq[i] = x
              /\ \A k \in 1 .. (i - 1) : seq[k] # x) - 1
    ELSE -1

\* Array.prototype.slice(from) for from >= 0.
SliceFrom(seq, from) ==
    IF from >= Len(seq) THEN << >> ELSE SubSeq(seq, from + 1, Len(seq))

\* Array.prototype.slice(0, to) for 0 <= to.
SliceTo(seq, to) ==
    IF to >= Len(seq) THEN seq ELSE SubSeq(seq, 1, to)

\* Array.prototype.slice(-n) for n > 0.
SliceLast(seq, n) ==
    IF n >= Len(seq) THEN seq ELSE SubSeq(seq, Len(seq) - n + 1, Len(seq))

\* Array.prototype.reverse.
Reverse(seq) == [i \in 1 .. Len(seq) |-> seq[Len(seq) + 1 - i]]

\* Array.prototype.join(","): the elements separated by commas.
RECURSIVE Join(_)
Join(strs) ==
    IF Len(strs) = 0 THEN ""
    ELSE IF Len(strs) = 1 THEN strs[1]
    ELSE strs[1] \o "," \o Join(Tail(strs))

\* ---------------------------------------------------------- deck factory

\* The deck before shuffling: two decks, each suit by suit, rank by rank.
\* The id `${suit}${rank}-${d}-${random}` is kept as <<suit, rank, d>>: the
\* random suffix does not take part in any comparison of the program.
OrderedDeck(numSuits) ==
    LET n == NumDecks * numSuits * Len(RANKS)
        pushed == [k \in 1 .. n |->
            LET d == (k - 1) \div (numSuits * Len(RANKS))
                s == ((k - 1) % (numSuits * Len(RANKS))) \div Len(RANKS)
                r == (k - 1) % Len(RANKS)
            IN  [suit |-> SUITS[s + 1], rank |-> RANKS[r + 1], faceUp |-> FALSE,
                 id |-> <<SUITS[s + 1], RANKS[r + 1], d>>]]
    IN  SubSeq(pushed, 1, n)

\* The iteration as it would be with the plain assignment deck[i] = deck[j].
OverwriteCard(deck, i, j) ==
    [deck EXCEPT ![i + 1] = deck[j + 1]]

\* One iteration of the Fisher-Yates loop: [deck[i], deck[j]] = [deck[j], deck[i]].
SwapCards(deck, i, j) ==
    [deck EXCEPT ![i + 1] = deck[j + 1], ![j + 1] = deck[i + 1]]

\* Fisher-Yates: for i from hi down to lo, swap deck[i] and deck[j] where
\* j = floor(random * (i + 1)) is js[i], a value in 0 .. i.  The iterations
\* hi .. lo are run as the upper half followed by the lower half, which is
\* the loop's order and keeps the evaluation depth logarithmic.
RECURSIVE FisherYates(_, _, _, _)
FisherYates(deck, hi, lo, js) ==
    IF hi < lo \/ Len(deck) = 0 THEN deck
    ELSE IF hi = lo THEN SwapCards(deck, hi, js[hi])
    ELSE LET mid == (hi + lo) \div 2
         IN  FisherYates(FisherYates(deck, hi, mid + 1, js), mid, lo, js)

generateShuffledSpiderDeck(numSuits, js) ==
    LET ordered == OrderedDeck(numSuits)
    IN  FisherYates(ordered, Len(ordered) - 1, 1, js)

\* ---------------------------------------------------------------- dealer

\* numCards as it would be with `col < 3` for the test.
ColCardsThreeLong(col) == IF col < 3 THEN 6 ELSE 5

\* Number of cards dealt to a column: 6 for the first four, 5 for the rest.
ColCards(col) == IF col < 4 THEN 6 ELSE 5

\* Value of idx when the loop reaches column col.
RECURSIVE DealStart(_)
DealStart(col) == IF col = 0 THEN 0 ELSE DealStart(col - 1) + ColCards(col - 1)

dealSpiderTableau(deck) ==
    LET column(col) ==
            LET n == ColCards(col)
                pushed == [row \in 1 .. n |->
                              [deck[DealStart(col) + row] EXCEPT !.faceUp = FALSE]]
            IN  IF n > 0
                THEN SubSeq(pushed, 1, n - 1)
                        \o <<[pushed[n] EXCEPT !.faceUp = TRUE]>>
                ELSE << >>
    IN  [tableau |-> [col \in Cols |-> column(col)],
         stock   |-> SliceFrom(deck, DealStart(NumCols))]

generateInitialState(js) ==
    LET deck  == generateShuffledSpiderDeck(GameSuits, js)
        dealt == dealSpiderTableau(deck)
    IN  [tableau |-> dealt.tableau, stock |-> dealt.stock,
         completedRuns |-> 0, moves |-> 0]

\* Outcomes of Math.random for one shuffle: js[i] is the j drawn at step i
\* of the Fisher-Yates loop (i = 1 .. 103).  Two outcomes are explored.
\*
\* ShuffleA deals (bottom to top; only the last card of a pile is face-up)
\*   pile 0: 8C AC 2H 9S KC KS   pile 5: 7D AH JC 10C QC
\*   pile 1: 6H QS 10H 7H 10H 9S pile 6: 8S 9H 10C QD 2S
\*   pile 2: KC 8C 10D 4C 8D 5S  pile 7: 9C 5S 6C 4C 2C
\*   pile 3: 7H KD KS 7D QC 3H   pile 8: 4H 9H 3D AC 6D
\*   pile 4: 8D 7C KH KD 6C      pile 9: AD 2D 3D 4D 5D
\* and its stock deals, to piles 0 .. 9,
\*   deal 1: QS 8S 4S 2C 6D 5H 4H 10D 7C 4S
\*   deal 2: JS 7S 3S 8H 3S 9D JD 5D 3C 5C
\*   deal 3: 10S 6S 2S AS 2D QH AH 6H 9C 5C
\*   deal 4: AS 9D JH 10S 6S QD 2H JC 8H QH
\*   deal 5: 5H JD JH 7S 4D AD JS 3H 3C KH
\* Piles 0, 1, 2 and the first three deals build K .. 2 of spades in two
\* moves; the ace dealt to pile 3 completes the run by a move, the ace of
\* deal 4 completes it by a deal; pile 9 empties onto pile 8 in five moves.
ShuffleA ==
  <<
    1, 1, 1, 3, 3, 3, 4, 6, 1, 10, 8, 11, 6, 7, 10, 10,
    4, 3, 1, 7, 20, 13, 3, 7, 16, 20, 13, 5, 29, 13, 26, 31,
    7, 1, 21, 6, 37, 30, 2, 15, 25, 42, 40, 25, 29, 0, 2, 31,
    26, 27, 28, 29, 30, 25, 41, 15, 36, 9, 1, 58, 9, 36, 17, 24,
    20, 3, 66, 54, 57, 61, 23, 34, 52, 43, 9, 70, 65, 76, 79, 0,
    1, 5, 9, 45, 10, 82, 86, 86, 54, 72, 2, 6, 10, 55, 45, 87,
    16, 69, 83, 92, 3, 7, 11
  >>

\* ShuffleB deals
\*   pile 0: 7C 6C 6C 7D 5S QS   pile 5: 6S 10H 3H 8S JH
\*   pile 1: KH QS 3C 7H JD 2S   pile 6: 4C 3S JC 4S KD
\*   pile 2: 10D 8D 6S JH 3C 9H  pile 7: 2S KD 5H JS 6H
\*   pile 3: QD 10S 5D 10C 9D 3H pile 8: QH 8H 4C 4H 6D
\*   pile 4: 8S 4D AH 4H 2C      pile 9: 10H KS JD 2D JC
\* and its stock deals
\*   deal 1: 6H 2H 9C 8D AS 7S 9C 9S 7C 3D
\*   deal 2: 10D AD 4S AD KH 7D 8C 7H 5C 2C
\*   deal 3: 8C AH 6D 10S 4D AC 2D 10C 5C 5H
\*   deal 4: QH 9H 5S AS QC KC QD KC 9S 9D
\*   deal 5: 3S JS 5D AC 3D 8H KS 7S 2H QC
\* Five deals in a row leave a board on which nothing can be done.  With
\* the queen of clubs of deal 4 moved onto the king beside it, deal 5 puts
\* the 3 of diamonds on the 4 of pile 4; that pair goes onto the 5 of pile
\* 2 and nothing can be done after it.  After deal 4 the queen of clubs of
\* pile 4 may go onto the king of pile 5 and onto the king of pile 7.
ShuffleB ==
  <<
    1, 2, 3, 4, 1, 0, 2, 5, 9, 5, 1, 8, 3, 5, 15, 0,
    0, 10, 9, 10, 0, 10, 15, 7, 20, 13, 16, 14, 20, 22, 3, 28,
    31, 10, 18, 32, 3, 38, 12, 26, 17, 10, 31, 24, 6, 8, 32, 6,
    12, 12, 32, 31, 49, 18, 14, 20, 56, 20, 28, 39, 8, 62, 2, 56,
    8, 18, 37, 51, 50, 52, 56, 48, 48, 69, 43, 48, 27, 55, 31, 61,
    31, 65, 6, 40, 0, 71, 46, 32, 25, 26, 55, 78, 35, 80, 0, 60,
    0, 6, 0, 85, 47, 66, 18
  >>

ShuffleOutcomes == {ShuffleA, ShuffleB}

InitialStates == {generateInitialState(js) : js \in ShuffleOutcomes}

\* -------------------------------------------------------- run validator

\* RANKS.indexOf(r) for each rank of the deck, computed once.
RankIndex == [r \in {RANKS[i] : i \in 1 .. Len(RANKS)} |-> IndexOf(RANKS, r)]

rankValue(r) == RankIndex[r]

\* isValidSpiderRun as it would be without the comparison of ranks.
isValidSpiderRunAnyRank(cards) ==
    IF Len(cards) < 2 THEN TRUE
    ELSE \A i \in 1 .. (Len(cards) - 1) :
            /\ ~(~cards[i].faceUp \/ ~cards[i + 1].faceUp)
            /\ ~(cards[i].suit # cards[i + 1].suit)

\* isValidSpiderRun as it would be without the comparison of suits.
isValidSpiderRunAnySuit(cards) ==
    IF Len(cards) < 2 THEN TRUE
    ELSE \A i \in 1 .. (Len(cards) - 1) :
            /\ ~(~cards[i].faceUp \/ ~cards[i + 1].faceUp)
            /\ ~(rankValue(cards[i].rank) # rankValue(cards[i + 1].rank) + 1)

\* isValidSpiderRun: the loop returns false at the first adjacent pair that
\* is not face-up, same suit and descending by one.
isValidSpiderRun(cards) ==
    IF Len(cards) < 2 THEN TRUE
    ELSE \A i \in 1 .. (Len(cards) - 1) :
            /\ ~(~cards[i].faceUp \/ ~cards[i + 1].faceUp)
            /\ ~(cards[i].suit # cards[i + 1].suit)
            /\ ~(rankValue(cards[i].rank) # rankValue(cards[i + 1].rank) + 1)

\* canDropCard as it would be without the comparison of suits.
canDropCardAnySuit(card, destination) ==
    IF Len(destination) = 0 THEN TRUE
    ELSE LET destCard == destination[Len(destination)]
         IN  rankValue(card.rank) = rankValue(destCard.rank) - 1

\* canDropCard: defined when the destination is empty or card is a card;
\* with card undefined and a non-empty destination the source reads
\* card.rank of undefined and throws (see canDropCardThrows).
canDropCard(card, destination) ==
    IF Len(destination) = 0 THEN TRUE
    ELSE LET destCard == destination[Len(destination)]
         IN  /\ rankValue(card.rank) = rankValue(destCard.rank) - 1
             /\ card.suit = destCard.suit

\* movingCards[0] is undefined and canDropCard goes on to read its rank.
canDropCardThrows(movingCards, destination) ==
    Len(destination) # 0 /\ Len(movingCards) = 0

\* The test applied to pile.slice(-13): one suit, all face-up, and the ranks
\* joined by "," equal to the reversed RANKS joined by ",".
isKingToAceRun(last13) ==
    /\ \A i \in 1 .. Len(last13) :
          last13[i].suit = last13[1].suit /\ last13[i].faceUp
    /\ Join([i \in 1 .. Len(last13) |-> last13[i].rank]) = Join(Reverse(RANKS))

hasCompleteRun(pile) ==
    Len(pile) >= RunLen /\ isKingToAceRun(SliceLast(pile, RunLen))

\* ------------------------------------------------------- terminal detector

\* The body of the nested loops of isAnyMovePossible and autoPlayNextMove:
\* (fromCol, fromRow, toCol) passes every `continue` and canDropCard.
isCandidate(tableau, fromCol, fromRow, toCol) ==
    LET pile == tableau[fromCol]
        movingCards == SliceFrom(pile, fromRow)
    IN  /\ pile[fromRow + 1].faceUp
        /\ ~(Len(movingCards) > 1 /\ ~isValidSpiderRun(movingCards))
        /\ toCol # fromCol
        /\ canDropCard(movingCards[1], tableau[toCol])

\* The loops over toCol, over fromRow and over fromCol reach a candidate.
rowHasMove(tableau, fromCol, fromRow) ==
    \E toCol \in Cols : isCandidate(tableau, fromCol, fromRow, toCol)

colHasMove(tableau, fromCol) ==
    \E fromRow \in 0 .. (Len(tableau[fromCol]) - 1) : rowHasMove(tableau, fromCol, fromRow)

hasTableauMove(tableau) == \E fromCol \in Cols : colHasMove(tableau, fromCol)

\* isAnyMovePossible as it would be without the final test of the stock.
isAnyMovePossibleOnTableau(state) ==
    IF \E col \in Cols : hasCompleteRun(state.tableau[col]) THEN TRUE
    ELSE IF hasTableauMove(state.tableau) THEN TRUE
    ELSE FALSE

isAnyMovePossible(state) ==
    IF \E col \in Cols : hasCompleteRun(state.tableau[col]) THEN TRUE
    ELSE IF hasTableauMove(state.tableau) THEN TRUE
    ELSE IF Len(state.stock) # 0 /\ \A col \in Cols : Len(state.tableau[col]) > 0
         THEN TRUE
    ELSE FALSE

\* ------------------------------------------------------ transition engine

\* newTableau as it would be with the moving cards pushed one by one from
\* the top of the group: the destination receives them in reverse order.
moveCardsReversed(tableau, fromCol, fromRow, toCol) ==
    LET movingCards == SliceFrom(tableau[fromCol], fromRow)
    IN  [idx \in Cols |->
            IF idx = fromCol THEN SliceTo(tableau[idx], fromRow)
            ELSE IF idx = toCol THEN tableau[idx] \o Reverse(movingCards)
            ELSE tableau[idx]]

\* newTableau as it would be without the cut of the source column: the
\* moving cards lie on both columns.
moveCardsKeepsSource(tableau, fromCol, fromRow, toCol) ==
    LET movingCards == SliceFrom(tableau[fromCol], fromRow)
    IN  [idx \in Cols |->
            IF idx = toCol /\ idx # fromCol THEN tableau[idx] \o movingCards
            ELSE tableau[idx]]

\* newTableau of doTableauMove: the source keeps rows 0 .. fromRow-1, the
\* destination gets the moving cards appended.
moveCards(tableau, fromCol, fromRow, toCol) ==
    LET movingCards == SliceFrom(tableau[fromCol], fromRow)
    IN  [idx \in Cols |->
            IF idx = fromCol THEN SliceTo(tableau[idx], fromRow)
            ELSE IF idx = toCol THEN tableau[idx] \o movingCards
            ELSE tableau[idx]]

\* The flip as it would be if it turned up every card left in the source
\* column.
flipAllLeft(tableau, fromCol) ==
    [idx \in Cols |->
        IF idx = fromCol
        THEN [i \in 1 .. Len(tableau[idx]) |-> [tableau[idx][i] EXCEPT !.faceUp = TRUE]]
        ELSE tableau[idx]]

\* Flip the new top card of the source column if it is face-down.
flipExposed(tableau, fromCol) ==
    LET justMovedFrom == tableau[fromCol]
        n == Len(justMovedFrom)
    IN  IF n # 0 /\ ~justMovedFrom[n].faceUp
        THEN [idx \in Cols |->
                IF idx = fromCol
                THEN SubSeq(justMovedFrom, 1, n - 1)
                        \o <<[justMovedFrom[n] EXCEPT !.faceUp = TRUE]>>
                ELSE tableau[idx]]
        ELSE tableau

\* The sweep as it would be without `completedRuns += 1`.
clearWithoutCounting(tableau, completedRuns) ==
    [tableau |-> [col \in Cols |->
                    IF hasCompleteRun(tableau[col])
                    THEN SliceTo(tableau[col], Len(tableau[col]) - RunLen)
                    ELSE tableau[col]],
     completedRuns |-> completedRuns]

\* The sweep over the 10 columns: each column ending in a complete run
\* loses its last 13 cards and adds 1 to completedRuns.
clearCompletedRuns(tableau, completedRuns) ==
    [tableau |-> [col \in Cols |->
                    IF hasCompleteRun(tableau[col])
                    THEN SliceTo(tableau[col], Len(tableau[col]) - RunLen)
                    ELSE tableau[col]],
     completedRuns |-> completedRuns
                       + Cardinality({col \in Cols : hasCompleteRun(tableau[col])})]

\* The deal as it would be with stock.shift() in place of stock.pop(): the
\* cards come off the bottom of the stock.
dealFromBottom(tableau, stock, col) ==
    LET k == IF Len(stock) < NumCols - col THEN Len(stock) ELSE NumCols - col
    IN  [tableau |-> [idx \in Cols |->
                        IF idx >= col /\ idx < col + k
                        THEN Append(tableau[idx],
                                    [stock[idx - col + 1] EXCEPT !.faceUp = TRUE])
                        ELSE tableau[idx]],
         stock   |-> SubSeq(stock, k + 1, Len(stock))]

\* The deal as it would be without `faceUp: true`: the cards keep the face
\* they had in the stock.
RECURSIVE dealLoopFaceDown(_, _, _)
dealLoopFaceDown(tableau, stock, col) ==
    IF col >= NumCols THEN [tableau |-> tableau, stock |-> stock]
    ELSE IF Len(stock) > 0
         THEN LET card == stock[Len(stock)]
              IN  dealLoopFaceDown([idx \in Cols |->
                                       IF idx = col THEN Append(tableau[idx], card)
                                       ELSE tableau[idx]],
                                   SliceTo(stock, Len(stock) - 1), col + 1)
         ELSE dealLoopFaceDown(tableau, stock, col + 1)

\* The deal as it would be if it read the last card of the stock without
\* popping it: every column takes that card and the stock keeps its length.
RECURSIVE dealLoopPeeks(_, _, _)
dealLoopPeeks(tableau, stock, col) ==
    IF col >= NumCols THEN [tableau |-> tableau, stock |-> stock]
    ELSE IF Len(stock) > 0
         THEN LET card == [stock[Len(stock)] EXCEPT !.faceUp = TRUE]
              IN  dealLoopPeeks([idx \in Cols |->
                                    IF idx = col THEN Append(tableau[idx], card)
                                    ELSE tableau[idx]],
                                stock, col + 1)
         ELSE dealLoopPeeks(tableau, stock, col + 1)

\* The map over the columns with stock.pop(): column col and the following
\* ones each take the last card of what is left of the stock, face-up.
RECURSIVE dealLoop(_, _, _)
dealLoop(tableau, stock, col) ==
    IF col >= NumCols THEN [tableau |-> tableau, stock |-> stock]
    ELSE IF Len(stock) > 0
         THEN LET card == [stock[Len(stock)] EXCEPT !.faceUp = TRUE]
              IN  dealLoop([idx \in Cols |->
                               IF idx = col THEN Append(tableau[idx], card)
                               ELSE tableau[idx]],
                           SliceTo(stock, Len(stock) - 1), col + 1)
         ELSE dealLoop(tableau, stock, col + 1)

\* ------------------------------------------------------------- handlers
\* A handler is a function of the component state app = [gameState, history,
\* gameIsOver, timers, dragState, fault] to the component state after it.

App ==
    [gameState |-> gameState, history |-> history, gameIsOver |-> gameIsOver,
     timers |-> timers, dragState |-> dragState, fault |-> fault]

\* doTableauMove as it would be without setHistory(prev => [...prev, gameState]).
doTableauMoveUnrecorded(app, fromCol, fromRow, toCol) ==
    LET gs == app.gameState
        movingCards == SliceFrom(gs.tableau[fromCol], fromRow)
    IN  IF Len(movingCards) = 1 \/ isValidSpiderRun(movingCards)
        THEN LET moved   == moveCards(gs.tableau, fromCol, fromRow, toCol)
                 flipped == flipExposed(moved, fromCol)
                 swept   == clearCompletedRuns(flipped, gs.completedRuns)
                 nextState == [gs EXCEPT !.tableau = swept.tableau,
                                         !.completedRuns = swept.completedRuns,
                                         !.moves = gs.moves + 1]
             IN  [app EXCEPT !.gameState = nextState,
                             !.gameIsOver = IF ~isAnyMovePossible(nextState)
                                            THEN TRUE ELSE app.gameIsOver]
        ELSE app

doTableauMove(app, fromCol, fromRow, toCol) ==
    LET gs == app.gameState
        movingCards == SliceFrom(gs.tableau[fromCol], fromRow)
    IN  IF Len(movingCards) = 1 \/ isValidSpiderRun(movingCards)
        THEN LET moved   == moveCards(gs.tableau, fromCol, fromRow, toCol)
                 flipped == flipExposed(moved, fromCol)
                 swept   == clearCompletedRuns(flipped, gs.completedRuns)
                 nextState == [gs EXCEPT !.tableau = swept.tableau,
                                         !.completedRuns = swept.completedRuns,
                                         !.moves = gs.moves + 1]
             IN  [app EXCEPT !.history = Append(app.history, gs),
                             !.gameState = nextState,
                             !.gameIsOver = IF ~isAnyMovePossible(nextState)
                                            THEN TRUE ELSE app.gameIsOver]
        ELSE app

\* onDrop of column colIdx.  The handler is attached only while dragState is
\* set and the game is not over.
onDrop(app, colIdx) ==
    IF app.dragState = NULL \/ app.gameIsOver THEN app
    ELSE LET ds == app.dragState[1]
             movingCards == SliceFrom(app.gameState.tableau[ds.fromCol], ds.fromRow)
             lead == IF Len(movingCards) = 0 THEN UNDEFINED ELSE movingCards[1]
             destPile == app.gameState.tableau[colIdx]
         IN  IF canDropCardThrows(movingCards, destPile)
             THEN [app EXCEPT !.fault = TRUE]
             ELSE IF canDropCard(lead, destPile)
                  THEN [doTableauMove(app, ds.fromCol, ds.fromRow, colIdx)
                            EXCEPT !.dragState = NULL]
                  ELSE app

\* renderCard: a card can be dragged iff it is face-up.
isDraggable(app, colIdx, rowIdx) ==
    /\ rowIdx < Len(app.gameState.tableau[colIdx])
    /\ app.gameState.tableau[colIdx][rowIdx + 1].faceUp

onDragStart(app, colIdx, rowIdx) ==
    [app EXCEPT !.dragState = <<[fromCol |-> colIdx, fromRow |-> rowIdx]>>]

onDragEnd(app) == [app EXCEPT !.dragState = NULL]

\* The stock's onClick as it would be without the test for an empty column.
stockClickIgnoringEmptyPiles(app) ==
    LET gs == app.gameState
    IN  IF app.gameIsOver THEN app
        ELSE IF Len(gs.stock) = 0 THEN app
        ELSE LET dealt == dealLoop(gs.tableau, gs.stock, 0)
                 nextState == [gs EXCEPT !.tableau = dealt.tableau,
                                         !.stock = dealt.stock,
                                         !.moves = gs.moves + 1]
             IN  [app EXCEPT !.history = Append(app.history, gs),
                             !.gameState = nextState,
                             !.gameIsOver = IF ~isAnyMovePossible(nextState)
                                            THEN TRUE ELSE app.gameIsOver]

\* The stock's onClick as it would be without the call of isAnyMovePossible
\* on nextState.
stockClickWithoutEndTest(app) ==
    LET gs == app.gameState
    IN  IF app.gameIsOver THEN app
        ELSE IF Len(gs.stock) = 0 THEN app
        ELSE IF \E col \in Cols : Len(gs.tableau[col]) = 0 THEN app
        ELSE LET dealt == dealLoop(gs.tableau, gs.stock, 0)
                 nextState == [gs EXCEPT !.tableau = dealt.tableau,
                                         !.stock = dealt.stock,
                                         !.moves = gs.moves + 1]
             IN  [app EXCEPT !.history = Append(app.history, gs),
                             !.gameState = nextState]

\* The stock's onClick as it would be without `if (gameIsOver) return`.
stockClickWhileOver(app) ==
    LET gs == app.gameState
    IN  IF Len(gs.stock) = 0 THEN app
        ELSE IF \E col \in Cols : Len(gs.tableau[col]) = 0 THEN app
        ELSE LET dealt == dealLoop(gs.tableau, gs.stock, 0)
                 nextState == [gs EXCEPT !.tableau = dealt.tableau,
                                         !.stock = dealt.stock,
                                         !.moves = gs.moves + 1]
             IN  [app EXCEPT !.history = Append(app.history, gs),
                             !.gameState = nextState,
                             !.gameIsOver = IF ~isAnyMovePossible(nextState)
                                            THEN TRUE ELSE app.gameIsOver]

\* The stock's onClick.
stockClick(app) ==
    LET gs == app.gameState
    IN  IF app.gameIsOver THEN app
        ELSE IF Len(gs.stock) = 0 THEN app
        ELSE IF \E col \in Cols : Len(gs.tableau[col]) = 0 THEN app
        ELSE LET dealt == dealLoop(gs.tableau, gs.stock, 0)
                 nextState == [gs EXCEPT !.tableau = dealt.tableau,
                                         !.stock = dealt.stock,
                                         !.moves = gs.moves + 1]
             IN  [app EXCEPT !.history = Append(app.history, gs),
                             !.gameState = nextState,
                             !.gameIsOver = IF ~isAnyMovePossible(nextState)
                                            THEN TRUE ELSE app.gameIsOver]

\* handleUndo as it would be with setGameIsOver(false) placed after the if.
handleUndoAlwaysClearsFlag(app) ==
    IF Len(app.history) > 0
    THEN [app EXCEPT !.gameState = app.history[Len(app.history)],
                     !.history = SubSeq(app.history, 1, Len(app.history) - 1),
                     !.gameIsOver = FALSE]
    ELSE [app EXCEPT !.gameIsOver = FALSE]

\* handleUndo as it would be without setHistory(prevHistory).
handleUndoKeepsHistory(app) ==
    IF Len(app.history) > 0
    THEN [app EXCEPT !.gameState = app.history[Len(app.history)],
                     !.gameIsOver = FALSE]
    ELSE app

handleUndo(app) ==
    IF Len(app.history) > 0
    THEN [app EXCEPT !.gameState = app.history[Len(app.history)],
                     !.history = SubSeq(app.history, 1, Len(app.history) - 1),
                     !.gameIsOver = FALSE]
    ELSE app

\* ---------------------------------------------------------- auto-play

\* A pending setTimeout callback is kept as the value of its test: TRUE when
\* it will call setGameIsOver(true).  The callback of an applied action
\* tests !isAnyMovePossible(nextState) on the state it captured, which does
\* not change between scheduling and running.
checkLater(nextState) == ~isAnyMovePossible(nextState)

\* The first (fromCol, fromRow, toCol) the nested loops reach: the lowest
\* fromCol with a candidate, its lowest fromRow, and that row's lowest toCol.
\* The choice as it would be with the loop over toCol run from 9 down to 0.
firstTableauMoveLastDest(tableau) ==
    LET f == CHOOSE c \in Cols :
                /\ colHasMove(tableau, c)
                /\ \A b \in 0 .. (c - 1) : ~colHasMove(tableau, b)
        r == CHOOSE x \in 0 .. (Len(tableau[f]) - 1) :
                /\ rowHasMove(tableau, f, x)
                /\ \A b \in 0 .. (x - 1) : ~rowHasMove(tableau, f, b)
        t == CHOOSE x \in Cols :
                /\ isCandidate(tableau, f, r, x)
                /\ \A b \in (x + 1) .. (NumCols - 1) : ~isCandidate(tableau, f, r, b)
    IN  <<f, r, t>>

firstTableauMove(tableau) ==
    LET f == CHOOSE c \in Cols :
                /\ colHasMove(tableau, c)
                /\ \A b \in 0 .. (c - 1) : ~colHasMove(tableau, b)
        r == CHOOSE x \in 0 .. (Len(tableau[f]) - 1) :
                /\ rowHasMove(tableau, f, x)
                /\ \A b \in 0 .. (x - 1) : ~rowHasMove(tableau, f, b)
        t == CHOOSE x \in Cols :
                /\ isCandidate(tableau, f, r, x)
                /\ \A b \in 0 .. (x - 1) : ~isCandidate(tableau, f, r, b)
    IN  <<f, r, t>>

\* The clearing branch as it would be without `moves: moves + 1`.
autoClearRunUncounted(gs) ==
    LET col == CHOOSE c \in Cols :
                  /\ hasCompleteRun(gs.tableau[c])
                  /\ \A b \in 0 .. (c - 1) : ~hasCompleteRun(gs.tableau[b])
        p == gs.tableau[col]
    IN  [gs EXCEPT !.tableau = [i \in Cols |->
                                  IF i = col THEN SliceTo(p, Len(p) - RunLen)
                                  ELSE gs.tableau[i]],
                   !.completedRuns = gs.completedRuns + 1]

\* The clearing branch as it would be without `completedRuns + 1`.
autoClearRunKeepsCount(gs) ==
    LET col == CHOOSE c \in Cols :
                  /\ hasCompleteRun(gs.tableau[c])
                  /\ \A b \in 0 .. (c - 1) : ~hasCompleteRun(gs.tableau[b])
        p == gs.tableau[col]
    IN  [gs EXCEPT !.tableau = [i \in Cols |->
                                  IF i = col THEN SliceTo(p, Len(p) - RunLen)
                                  ELSE gs.tableau[i]],
                   !.moves = gs.moves + 1]

\* The clearing branch as it would be with the loop over the columns run
\* from 9 down to 0.
autoClearRunFromRight(gs) ==
    LET col == CHOOSE c \in Cols :
                  /\ hasCompleteRun(gs.tableau[c])
                  /\ \A b \in (c + 1) .. (NumCols - 1) : ~hasCompleteRun(gs.tableau[b])
        p == gs.tableau[col]
    IN  [gs EXCEPT !.tableau = [i \in Cols |->
                                  IF i = col THEN SliceTo(p, Len(p) - RunLen)
                                  ELSE gs.tableau[i]],
                   !.completedRuns = gs.completedRuns + 1,
                   !.moves = gs.moves + 1]

autoClearRun(gs) ==
    LET col == CHOOSE c \in Cols :
                  /\ hasCompleteRun(gs.tableau[c])
                  /\ \A b \in 0 .. (c - 1) : ~hasCompleteRun(gs.tableau[b])
        p == gs.tableau[col]
    IN  [gs EXCEPT !.tableau = [i \in Cols |->
                                  IF i = col THEN SliceTo(p, Len(p) - RunLen)
                                  ELSE gs.tableau[i]],
                   !.completedRuns = gs.completedRuns + 1,
                   !.moves = gs.moves + 1]

\* The tableau move of auto-play as it would be without the flip of the
\* card uncovered on the source column.
autoTableauMoveNoFlip(gs) ==
    LET m == firstTableauMove(gs.tableau)
        moved   == moveCards(gs.tableau, m[1], m[2], m[3])
        swept   == clearCompletedRuns(moved, gs.completedRuns)
    IN  [gs EXCEPT !.tableau = swept.tableau,
                   !.completedRuns = swept.completedRuns,
                   !.moves = gs.moves + 1]

autoTableauMove(gs) ==
    LET m == firstTableauMove(gs.tableau)
        moved   == moveCards(gs.tableau, m[1], m[2], m[3])
        flipped == flipExposed(moved, m[1])
        swept   == clearCompletedRuns(flipped, gs.completedRuns)
    IN  [gs EXCEPT !.tableau = swept.tableau,
                   !.completedRuns = swept.completedRuns,
                   !.moves = gs.moves + 1]

autoStockDeal(gs) ==
    LET dealt == dealLoop(gs.tableau, gs.stock, 0)
    IN  [gs EXCEPT !.tableau = dealt.tableau, !.stock = dealt.stock,
                   !.moves = gs.moves + 1]

\* The branches as they would be taken with the tableau loops placed before
\* the loop that looks for a complete run.
autoPlayBranchMoveFirst(gs) ==
    IF hasTableauMove(gs.tableau) THEN "move"
    ELSE IF \E col \in Cols : hasCompleteRun(gs.tableau[col]) THEN "clear"
    ELSE IF Len(gs.stock) # 0 /\ \A col \in Cols : Len(gs.tableau[col]) > 0
         THEN "deal"
    ELSE "none"

\* The branches as they would be taken without the stock deal of step 3.
autoPlayBranchNoDeal(gs) ==
    IF \E col \in Cols : hasCompleteRun(gs.tableau[col]) THEN "clear"
    ELSE IF hasTableauMove(gs.tableau) THEN "move"
    ELSE "none"

\* The branches as they would be taken with the stock deal of step 3 tried
\* before the tableau move of step 2.
autoPlayBranchDealFirst(gs) ==
    IF \E col \in Cols : hasCompleteRun(gs.tableau[col]) THEN "clear"
    ELSE IF Len(gs.stock) # 0 /\ \A col \in Cols : Len(gs.tableau[col]) > 0
         THEN "deal"
    ELSE IF hasTableauMove(gs.tableau) THEN "move"
    ELSE "none"

\* Which of the four branches autoPlayNextMove takes.
autoPlayBranch(gs) ==
    IF \E col \in Cols : hasCompleteRun(gs.tableau[col]) THEN "clear"
    ELSE IF hasTableauMove(gs.tableau) THEN "move"
    ELSE IF Len(gs.stock) # 0 /\ \A col \in Cols : Len(gs.tableau[col]) > 0
         THEN "deal"
    ELSE "none"

autoPlayNextMove(app) ==
    LET gs == app.gameState
        branch == autoPlayBranch(gs)
        nextState == IF branch = "clear" THEN autoClearRun(gs)
                     ELSE IF branch = "move" THEN autoTableauMove(gs)
                     ELSE IF branch = "deal" THEN autoStockDeal(gs)
                     ELSE gs
    IN  IF branch = "none"
        THEN [app EXCEPT !.timers = Append(app.timers, TRUE)]
        ELSE [app EXCEPT !.gameState = nextState,
                         !.history = Append(app.history, gs),
                         !.timers = Append(app.timers, checkLater(nextState))]

\* A setTimeout callback runs.
runTimer(app) ==
    [app EXCEPT !.timers = Tail(app.timers),
                !.gameIsOver = IF Head(app.timers) THEN TRUE ELSE app.gameIsOver]

\* handleRestart as it would be if it cancelled the pending callbacks with
\* clearTimeout.
handleRestartCancelsTimers(app, fresh) ==
    [app EXCEPT !.history = << >>,
                !.gameState = fresh,
                !.gameIsOver = FALSE,
                !.timers = << >>]

\* handleRestart as it would be without setHistory([]).
handleRestartKeepsHistory(app, fresh) ==
    [app EXCEPT !.gameState = fresh,
                !.gameIsOver = FALSE]

\* fresh is the value generateInitialState() returns for the restart.
handleRestart(app, fresh) ==
    [app EXCEPT !.history = << >>,
                !.gameState = fresh,
                !.gameIsOver = FALSE]

\* ------------------------------------------------------------ behaviour

Become(app) ==
    /\ gameState' = app.gameState
    /\ history' = app.history
    /\ gameIsOver' = app.gameIsOver
    /\ timers' = app.timers
    /\ dragState' = app.dragState
    /\ fault' = app.fault

Init ==
    /\ gameState \in InitialStates
    /\ history = << >>
    /\ gameIsOver = FALSE
    /\ timers = << >>
    /\ dragState = NULL
    /\ fault = FALSE

\* One drag gesture: dragstart on a draggable card, drop on a column, dragend.
dragAndDrop(app, fromCol, fromRow, toCol) ==
    onDragEnd(onDrop(onDragStart(app, fromCol, fromRow), toCol))

\* The rows of a column that hold a card.
Rows(fromCol) == 0 .. (Len(gameState.tableau[fromCol]) - 1)

\* A gesture either commits a move (moves grows by one) or leaves the
\* component state as it was.
Commits(fromCol, fromRow, toCol) ==
    dragAndDrop(App, fromCol, fromRow, toCol).gameState.moves # gameState.moves

\* Some gesture on a draggable card is turned down.
SomeDropRejected ==
    \E fromCol \in Cols : \E fromRow \in Rows(fromCol) : \E toCol \in Cols :
        isDraggable(App, fromCol, fromRow) /\ ~Commits(fromCol, fromRow, toCol)

\* The user drags a draggable card and drops it on a column.
Drop ==
    /\ dragState = NULL
    /\ gameState.moves < MaxMoves
    /\ \/ \E fromCol \in Cols : \E fromRow \in Rows(fromCol) : \E toCol \in Cols :
            /\ isDraggable(App, fromCol, fromRow)
            /\ Commits(fromCol, fromRow, toCol)
            /\ Become(dragAndDrop(App, fromCol, fromRow, toCol))
       \/ IF SomeDropRejected THEN UNCHANGED vars ELSE FALSE

StockClick ==
    /\ dragState = NULL
    /\ gameState.moves < MaxMoves
    /\ Become(stockClick(App))

\* The Auto Play button is disabled while the game is over.
AutoPlayClick ==
    /\ dragState = NULL
    /\ ~gameIsOver
    /\ gameState.moves < MaxMoves
    /\ Len(timers) < MaxTimers
    /\ Become(autoPlayNextMove(App))

TimerFire ==
    /\ Len(timers) > 0
    /\ Become(runTimer(App))

\* The disabled attribute of the Undo button.
undoDisabled(app) == Len(app.history) = 0 \/ app.gameIsOver

\* A click on the Undo button, which takes no click while it is disabled.
UndoClick ==
    /\ dragState = NULL
    /\ ~undoDisabled(App)
    /\ Become(handleUndo(App))

RestartClick ==
    /\ dragState = NULL
    /\ \E fresh \in InitialStates : Become(handleRestart(App, fresh))

Next ==
    \/ Drop
    \/ StockClick
    \/ AutoPlayClick
    \/ TimerFire
    \/ UndoClick
    \/ RestartClick

Spec == Init /\ [][Next]_vars

\* The event loop runs every callback that setTimeout(..., 0) has queued.
LiveSpec == Spec /\ WF_vars(TimerFire)

\* ------------------------------------------------- the Klondike component
\* Solitaire.tsx keeps gameState = {tableau, stock, waste, foundations} and
\* dragState.  Its behaviour is a specification of its own over the same
\* two variables; history, gameIsOver, timers and fault, which the
\* component does not have, stay as they start.

\* Number of tableau columns dealt by dealTableau.
KlondikeCols == 7

\* Number of foundation piles.
KlondikeFoundations == 4

\* Largest number of face-down tableau cards the model lets the player
\* uncover.
MaxFlips == 2

KCols == 0 .. (KlondikeCols - 1)

\* The 52 cards suit by suit, rank by rank, face-down, with the id
\* `${suit}${rank}`, shuffled by the Fisher-Yates loop with the draws js.
generateShuffledDeck(js) ==
    LET n == Len(SUITS) * Len(RANKS)
        pushed == [k \in 1 .. n |->
            LET s == (k - 1) \div Len(RANKS)
                r == (k - 1) % Len(RANKS)
            IN  [suit |-> SUITS[s + 1], rank |-> RANKS[r + 1], faceUp |-> FALSE,
                 id |-> SUITS[s + 1] \o RANKS[r + 1]]]
    IN  FisherYates(SubSeq(pushed, 1, n), n - 1, 1, js)

\* Value of idx when the outer loop reaches column col.
KlondikeDealStart(col) == (col * (col + 1)) \div 2

\* Column col takes col + 1 cards, the last of them face-up; the stock is
\* the rest of the deck.
dealTableau(deck) ==
    LET column(col) ==
            LET pushed == [row \in 1 .. (col + 1) |->
                              [deck[KlondikeDealStart(col) + row]
                                   EXCEPT !.faceUp = (row = col + 1)]]
            IN  SubSeq(pushed, 1, col + 1)
    IN  [tableau |-> [col \in KCols |-> column(col)],
         stock   |-> SliceFrom(deck, KlondikeDealStart(KlondikeCols))]

klondikeInitialState(js) ==
    LET dealt == dealTableau(generateShuffledDeck(js))
    IN  [tableau |-> dealt.tableau, stock |-> dealt.stock, waste |-> << >>,
         foundations |-> [i \in 1 .. KlondikeFoundations |-> << >>]]

\* Two outcomes of Math.random for the 51 draws of the shuffle: j = 0 at
\* every step, and j = i - 1 at every step.
KlondikeShuffles ==
    {[i \in 1 .. (Len(SUITS) * Len(RANKS) - 1) |-> 0],
     [i \in 1 .. (Len(SUITS) * Len(RANKS) - 1) |-> i - 1]}

KlondikeInitialStates == {klondikeInitialState(js) : js \in KlondikeShuffles}

\* waste.map(c => ({ ...c, faceUp: false })).
FaceDownAll(cards) ==
    SubSeq([i \in 1 .. Len(cards) |-> [cards[i] EXCEPT !.faceUp = FALSE]], 1, Len(cards))

\* Array.prototype.reverse, as an array of its own.
Reversed(cards) == SubSeq(Reverse(cards), 1, Len(cards))

\* The stock's onClick as it would be without `.reverse()`.
klondikeStockClickNoReverse(gs) ==
    IF Len(gs.stock) > 0
    THEN LET cardDrawn == [gs.stock[Len(gs.stock)] EXCEPT !.faceUp = TRUE]
         IN  [gs EXCEPT !.stock = SliceTo(gs.stock, Len(gs.stock) - 1),
                        !.waste = Append(gs.waste, cardDrawn)]
    ELSE IF Len(gs.waste) > 0
    THEN [gs EXCEPT !.stock = FaceDownAll(gs.waste), !.waste = << >>]
    ELSE gs

\* The stock's onClick: draw the last card of the stock to the waste,
\* face-up, or, on an empty stock, turn the waste over into the stock.
klondikeStockClick(gs) ==
    IF Len(gs.stock) > 0
    THEN LET cardDrawn == [gs.stock[Len(gs.stock)] EXCEPT !.faceUp = TRUE]
         IN  [gs EXCEPT !.stock = SliceTo(gs.stock, Len(gs.stock) - 1),
                        !.waste = Append(gs.waste, cardDrawn)]
    ELSE IF Len(gs.waste) > 0
    THEN [gs EXCEPT !.stock = Reversed(FaceDownAll(gs.waste)), !.waste = << >>]
    ELSE gs

\* canDropCard of Solitaire.tsx: a king on an empty pile, otherwise any card
\* of lower rank than the top card of the pile.
klondikeCanDropCard(card, destination) ==
    IF Len(destination) = 0 THEN card.rank = "K"
    ELSE rankValue(card.rank) < rankValue(destination[Len(destination)].rank)

\* doTableauMove of Solitaire.tsx.
klondikeDoTableauMove(gs, fromCol, fromRow, toCol) ==
    LET movingCards == SliceFrom(gs.tableau[fromCol], fromRow)
        newTableau == [idx \in KCols |->
                          IF idx = fromCol THEN SliceTo(gs.tableau[idx], fromRow)
                          ELSE IF idx = toCol THEN gs.tableau[idx] \o movingCards
                          ELSE gs.tableau[idx]]
        justMovedFrom == newTableau[fromCol]
        n == Len(justMovedFrom)
    IN  [gs EXCEPT !.tableau =
            [idx \in KCols |->
                IF idx = fromCol /\ n > 0 /\ ~justMovedFrom[n].faceUp
                THEN SliceTo(justMovedFrom, n - 1)
                        \o <<[justMovedFrom[n] EXCEPT !.faceUp = TRUE]>>
                ELSE newTableau[idx]]]

\* renderCard of Solitaire.tsx: only the face-up top card of a pile can be
\* dragged.
klondikeIsDraggable(gs, colIdx, rowIdx) ==
    /\ rowIdx < Len(gs.tableau[colIdx])
    /\ gs.tableau[colIdx][rowIdx + 1].faceUp
    /\ rowIdx = Len(gs.tableau[colIdx]) - 1

\* onDrop of column colIdx while (fromCol, fromRow) is dragged.
klondikeOnDrop(gs, fromCol, fromRow, colIdx) ==
    LET movingCards == SliceFrom(gs.tableau[fromCol], fromRow)
    IN  IF klondikeCanDropCard(movingCards[1], gs.tableau[colIdx])
        THEN klondikeDoTableauMove(gs, fromCol, fromRow, colIdx)
        ELSE gs

\* Face-down tableau cards uncovered since the deal: no card leaves the
\* tableau and none is turned face-down again.
KlondikeFlips(gs) ==
    Cardinality({<<c, r>> \in KCols \X (1 .. 20) :
                    r <= Len(gs.tableau[c]) /\ gs.tableau[c][r].faceUp})
        - KlondikeCols

KlondikeInit ==
    /\ gameState \in KlondikeInitialStates
    /\ dragState = NULL
    /\ history = << >>
    /\ gameIsOver = FALSE
    /\ timers = << >>
    /\ fault = FALSE

\* The user drags the top card of a pile and drops it on a column.
KlondikeDrop ==
    /\ dragState = NULL
    /\ KlondikeFlips(gameState) < MaxFlips
    /\ \E fromCol \in KCols : \E toCol \in KCols :
       \E fromRow \in 0 .. (Len(gameState.tableau[fromCol]) - 1) :
          /\ klondikeIsDraggable(gameState, fromCol, fromRow)
          /\ gameState' = klondikeOnDrop(gameState, fromCol, fromRow, toCol)
    /\ UNCHANGED <<history, gameIsOver, timers, dragState, fault>>

KlondikeStockClick ==
    /\ dragState = NULL
    /\ gameState' = klondikeStockClick(gameState)
    /\ UNCHANGED <<history, gameIsOver, timers, dragState, fault>>

KlondikeRestart ==
    /\ dragState = NULL
    /\ gameState' \in KlondikeInitialStates
    /\ UNCHANGED <<history, gameIsOver, timers, dragState, fault>>

KlondikeNext ==
    \/ KlondikeDrop
    \/ KlondikeStockClick
    \/ KlondikeRestart

KlondikeSpec == KlondikeInit /\ [][KlondikeNext]_vars

\* ------------------------------------------------------------ properties
\* The handlers are functions of the component state, so a property of a
\* handler is stated in every reachable state for every input it can get.
\* The result of a handler is named by a quantifier over the set that
\* holds just that result (\A a \in {handler(App)} : ...).

\* The states in which the user still acts: Drop, StockClick and
\* AutoPlayClick are taken while moves is below MaxMoves.
WithinPlay == gameState.moves < MaxMoves

\* P holds for every gesture of the user: a drag of a draggable card
\* (fromCol, fromRow) dropped on a column toCol.
ForEveryGesture(P(_, _, _)) ==
    \A fromCol \in Cols : \A fromRow \in Rows(fromCol) :
        isDraggable(App, fromCol, fromRow) =>
            \A toCol \in Cols : P(fromCol, fromRow, toCol)

Last(h) == h[Len(h)]

Front(h) == SubSeq(h, 1, Len(h) - 1)

\* The component as it was before the last accepted operation.
Before ==
    [App EXCEPT !.gameState = Last(history), !.history = Front(history),
                !.gameIsOver = FALSE]

\* The 1-based position of a rank in A, 2, ..., K.
RankPos == [r \in {RANKS[i] : i \in 1 .. Len(RANKS)} |->
               CHOOSE i \in 1 .. Len(RANKS) : RANKS[i] = r]

Ids(cards) == [i \in 1 .. Len(cards) |-> cards[i].id]

\* The top RunLen cards of a pile are face-up, of the suit of the top card,
\* and run from King down to Ace.
TopRun(pile) ==
    /\ Len(pile) >= RunLen
    /\ \A i \in 1 .. RunLen :
          LET c == pile[Len(pile) - RunLen + i]
          IN  c.faceUp /\ c.suit = pile[Len(pile)].suit /\ RankPos[c.rank] = RunLen + 1 - i

\* The operation that produced the component state a was accepted: every
\* accepted operation counts a move, a refused one returns before it does.
Accepted(a) == a.gameState.moves # gameState.moves

\* Undo applied right after the operation that produced a gives back the
\* game state and the history the operation started from.
UndoRestores(a) ==
    Accepted(a) =>
        /\ handleUndo(a).gameState = gameState
        /\ handleUndo(a).history = history

UndoRestoresDrop(fromCol, fromRow, toCol) ==
    \A a \in {dragAndDrop(App, fromCol, fromRow, toCol)} : UndoRestores(a)

\* C1: undo is a strict inverse of every accepted operation: after an
\* accepted tableau move, stock deal or auto-play action, undo yields the
\* game state (tableau, stock, completedRuns, moves) and the history that
\* the operation started from.
C1_UndoIsStrictInverse ==
    WithinPlay =>
        /\ ForEveryGesture(UndoRestoresDrop)
        /\ \A a \in {stockClick(App), autoPlayNextMove(App)} : UndoRestores(a)

\* An operation that completed a run has just been accepted, undo is
\* available, and it would bring completedRuns back to the lower value.
C1_UndoAfterRunWitness ==
    /\ Len(history) > 0
    /\ ~gameIsOver
    /\ gameState.completedRuns = Last(history).completedRuns + 1
    /\ handleUndo(App).gameState = Last(history)
    /\ handleUndo(App).history = Front(history)

TransfersGroup(fromCol, fromRow, toCol) ==
    LET pile  == gameState.tableau[fromCol]
        dest  == gameState.tableau[toCol]
        group == SubSeq(pile, fromRow + 1, Len(pile))
        pre   == moveCards(gameState.tableau, fromCol, fromRow, toCol)
        a     == dragAndDrop(App, fromCol, fromRow, toCol)
        after == a.gameState
        rest  == Cols \ {fromCol, toCol}
    IN  Accepted(a) =>
            /\ pre[fromCol] = SubSeq(pile, 1, fromRow)
            /\ pre[toCol] = dest \o group
            /\ \A c \in rest : pre[c] = gameState.tableau[c]
            /\ after.completedRuns = gameState.completedRuns =>
                  /\ Ids(after.tableau[fromCol]) = Ids(SubSeq(pile, 1, fromRow))
                  /\ after.tableau[toCol] = dest \o group
                  /\ \A c \in rest : after.tableau[c] = gameState.tableau[c]

\* C2: an accepted tableau move from (fromCol, fromRow) to toCol takes
\* exactly the cards fromRow .. end off the source pile and puts exactly
\* those cards, in the same order, on top of the destination pile, before
\* the sweep; when the sweep removes nothing the new state shows it.
C2_MoveTransfersGroup == WithinPlay => ForEveryGesture(TransfersGroup)

\* A group of two or more cards has just been moved by a drop.
C2_GroupMovedWitness ==
    /\ Len(history) > 0
    /\ \E fromCol \in Cols : \E toCol \in Cols \ {fromCol} :
        \E fromRow \in 0 .. (Len(Last(history).tableau[fromCol]) - 2) :
          /\ isDraggable(Before, fromCol, fromRow)
          /\ dragAndDrop(Before, fromCol, fromRow, toCol).gameState = gameState
          /\ Len(gameState.tableau[toCol]) >= Len(Last(history).tableau[toCol]) + 2

SweepsCompletedRuns(fromCol, fromRow, toCol) ==
    LET a    == dragAndDrop(App, fromCol, fromRow, toCol)
        mid  == flipExposed(moveCards(gameState.tableau, fromCol, fromRow, toCol), fromCol)
        full == {c \in Cols : TopRun(mid[c])}
    IN  Accepted(a) =>
            /\ a.gameState.completedRuns = gameState.completedRuns + Cardinality(full)
            /\ \A c \in Cols :
                  a.gameState.tableau[c] =
                      IF c \in full THEN SubSeq(mid[c], 1, Len(mid[c]) - RunLen)
                      ELSE mid[c]
            /\ a.gameState.moves = gameState.moves + 1
            /\ a.history = Append(history, gameState)

\* C3: when an accepted tableau move leaves a pile whose top 13 cards are
\* face-up, of one suit and King down to Ace, exactly those 13 cards leave
\* that pile and completedRuns grows by 1 per such pile, in the transition
\* of the move itself.
C3_MoveSweepsCompletedRuns == WithinPlay => ForEveryGesture(SweepsCompletedRuns)

\* A drop has just completed a run on a board that held none: 13 cards
\* left the tableau and completedRuns grew.
C3_RunSweptWitness ==
    /\ Len(history) > 0
    /\ gameState.completedRuns = Last(history).completedRuns + 1
    /\ \A c \in Cols : ~TopRun(Last(history).tableau[c])
    /\ \E fromCol \in Cols : \E toCol \in Cols :
        \E fromRow \in 0 .. (Len(Last(history).tableau[fromCol]) - 1) :
          /\ isDraggable(Before, fromCol, fromRow)
          /\ dragAndDrop(Before, fromCol, fromRow, toCol).gameState = gameState

\* The stock is empty or some pile is empty.
DealBlocked(state) ==
    Len(state.stock) = 0 \/ \E c \in Cols : Len(state.tableau[c]) = 0

\* C4: a stock deal is applied only when the stock is non-empty and each
\* of the 10 piles is non-empty; when one of the two fails the click is a
\* no-op: game state, history and terminal flag stay as they are.
C4_DealOnlyWhenLegal ==
    \A a \in {stockClick(App)} :
        /\ DealBlocked(gameState) => a = App
        /\ a # App =>
              /\ Len(gameState.stock) > 0
              /\ \A c \in Cols : Len(gameState.tableau[c]) > 0
              /\ Len(a.gameState.stock) < Len(gameState.stock)

\* The game goes on, the stock holds cards and a pile is empty: the stock
\* click is refused.
C4_EmptyPileBlocksDealWitness ==
    /\ ~gameIsOver
    /\ WithinPlay
    /\ Len(gameState.stock) > 0
    /\ \E c \in Cols : Len(gameState.tableau[c]) = 0
    /\ stockClick(App) = App

Min(a, b) == IF a < b THEN a ELSE b

\* after is the deal the claim describes, of the given stock onto the
\* given tableau: the last min(10, n) cards of the stock leave it, the
\* last one onto pile 0, the one before onto pile 1, ..., each face-up.
DealsFromTop(tableau, stock, after) ==
    LET n == Len(stock)
        k == Min(NumCols, n)
    IN  /\ after.stock = SubSeq(stock, 1, n - k)
        /\ \A c \in Cols :
              after.tableau[c] =
                  IF c < k
                  THEN tableau[c] \o <<[stock[n - c] EXCEPT !.faceUp = TRUE]>>
                  ELSE tableau[c]

\* a is the component after an accepted deal from the present state.
DealApplied(a) ==
    /\ DealsFromTop(gameState.tableau, gameState.stock, a.gameState)
    /\ a.gameState.moves = gameState.moves + 1
    /\ a.gameState.completedRuns = gameState.completedRuns
    /\ a.history = Append(history, gameState)

\* C5: an accepted stock deal takes cards off the end of the stock one at
\* a time and puts each, face-up, on piles 0, 1, 2, ... in ascending order
\* (the last stock card on pile 0), min(10, stock length) cards in all,
\* adds 1 to moves and pushes the state before the deal to the history; the
\* deal of auto-play does the same, and so does the loop on a stock cut
\* down to fewer than 10 cards.
C5_DealTakesFromTopOfStock ==
    /\ \A a \in {stockClick(App)} : Accepted(a) => DealApplied(a)
    /\ \A a \in {autoPlayNextMove(App)} :
          Len(a.gameState.stock) # Len(gameState.stock) => DealApplied(a)
    /\ \A n \in 0 .. Min(Len(gameState.stock), NumCols + 1) :
          \A after \in {dealLoop(gameState.tableau, SubSeq(gameState.stock, 1, n), 0)} :
              DealsFromTop(gameState.tableau, SubSeq(gameState.stock, 1, n), after)

\* A deal has just been applied: the card that was last in the stock lies
\* face-up on pile 0 and the stock is 10 cards shorter.
C5_DealtWitness ==
    /\ Len(history) > 0
    /\ Len(Last(history).stock) = Len(gameState.stock) + NumCols
    /\ stockClick(Before).gameState = gameState
    /\ Last(gameState.tableau[0]).id = Last(Last(history).stock).id
    /\ Last(gameState.tableau[0]).faceUp

\* The lead card may be placed on the destination as the placement rule
\* states it: any card on an empty pile, else a card one rank below the
\* top card of the pile and of its suit.
Placeable(card, dest) ==
    \/ Len(dest) = 0
    \/ /\ Len(dest) > 0
       /\ RankPos[card.rank] + 1 = RankPos[Last(dest).rank]
       /\ card.suit = Last(dest).suit

\* The cards of the pile from fromRow to the top are a single face-up card
\* or a face-up run of one suit descending by one rank at each step.
MovableGroup(pile, fromRow) ==
    /\ pile[fromRow + 1].faceUp
    /\ \A i \in (fromRow + 1) .. (Len(pile) - 1) :
          /\ pile[i].faceUp /\ pile[i + 1].faceUp
          /\ pile[i].suit = pile[i + 1].suit
          /\ RankPos[pile[i].rank] = RankPos[pile[i + 1].rank] + 1

NoCompletableRun(tableau) == \A c \in Cols : ~TopRun(tableau[c])

NoPlaceableGroup(tableau) ==
    \A f \in Cols : \A r \in 0 .. (Len(tableau[f]) - 1) :
        MovableGroup(tableau[f], r) =>
            \A t \in Cols \ {f} : ~Placeable(tableau[f][r + 1], tableau[t])

\* C6: isAnyMovePossible returns false exactly when no pile has a complete
\* run on top, no face-up card or movable run can be placed on another
\* pile, and the stock is empty or some pile is empty; in every other state
\* it returns true.
C6_NoMoveExactlyWhenAllBlocked ==
    isAnyMovePossible(gameState) =
        ~(/\ NoCompletableRun(gameState.tableau)
          /\ NoPlaceableGroup(gameState.tableau)
          /\ DealBlocked(gameState))

\* A board on which nothing can be done, and the detector says so.
C6_StuckBoardWitness ==
    /\ ~isAnyMovePossible(gameState)
    /\ NoPlaceableGroup(gameState.tableau)
    /\ Len(gameState.stock) = 0

\* after comes from the present state by removing the complete run of one
\* pile and nothing else.
ClearedOneRun(after) ==
    /\ after.stock = gameState.stock
    /\ after.completedRuns = gameState.completedRuns + 1
    /\ \E c \in Cols :
          /\ TopRun(gameState.tableau[c])
          /\ after.tableau[c] = SubSeq(gameState.tableau[c], 1,
                                        Len(gameState.tableau[c]) - RunLen)
          /\ \A o \in Cols \ {c} : after.tableau[o] = gameState.tableau[o]

\* after comes from the present state by one placeable group going from
\* its pile to another pile, the stock untouched.
MovedOneGroup(after) ==
    /\ after.stock = gameState.stock
    /\ \E f \in Cols : \E r \in 0 .. (Len(gameState.tableau[f]) - 1) :
        \E t \in Cols \ {f} :
          /\ MovableGroup(gameState.tableau[f], r)
          /\ Placeable(gameState.tableau[f][r + 1], gameState.tableau[t])
          /\ after.completedRuns = gameState.completedRuns =>
                /\ Ids(after.tableau[f]) = Ids(SubSeq(gameState.tableau[f], 1, r))
                /\ after.tableau[t] =
                      gameState.tableau[t]
                          \o SubSeq(gameState.tableau[f], r + 1, Len(gameState.tableau[f]))
                /\ \A o \in Cols \ {f, t} : after.tableau[o] = gameState.tableau[o]
          /\ after.completedRuns # gameState.completedRuns =>
                Len(after.tableau[f]) < Len(gameState.tableau[f])

\* C7: an auto-play step applies exactly one action by strict priority: it
\* clears a complete run if a pile has one; otherwise it makes a tableau
\* move if one is legal; otherwise it deals if a deal is legal.  It never
\* deals while a run or a move exists and never moves while a run exists.
C7_AutoPlayStrictPriority ==
    \A a \in {autoPlayNextMove(App)} :
    \A after \in {a.gameState} :
    \A run \in {~NoCompletableRun(gameState.tableau)} :
    \A move \in {~NoPlaceableGroup(gameState.tableau)} :
    \A deal \in {~DealBlocked(gameState)} :
        /\ run => ClearedOneRun(after)
        /\ ~run /\ move => MovedOneGroup(after)
        /\ ~run /\ ~move /\ deal =>
              DealsFromTop(gameState.tableau, gameState.stock, after)
        /\ run \/ move => after.stock = gameState.stock
        /\ run \/ move \/ deal =>
              /\ after.moves = gameState.moves + 1
              /\ a.history = Append(history, gameState)
        /\ ~run /\ ~move /\ ~deal =>
              after = gameState /\ a.history = history

\* Auto-play has just cleared a run from a board on which a tableau move
\* and a stock deal were possible too.
C7_ClearedBeforeMoveAndDealWitness ==
    /\ Len(history) > 0
    /\ Len(timers) > 0
    /\ ~NoCompletableRun(Last(history).tableau)
    /\ ~NoPlaceableGroup(Last(history).tableau)
    /\ ~DealBlocked(Last(history))
    /\ autoPlayNextMove(Before).gameState = gameState
    /\ gameState.completedRuns = Last(history).completedRuns + 1

\* The group has two or more cards and is not a movable run: a member is
\* face-down, two neighbours differ in suit, or two neighbours are not one
\* rank apart in descending order.
NotMovableRun(cards) ==
    /\ Len(cards) >= 2
    /\ \E i \in 1 .. (Len(cards) - 1) :
          \/ ~cards[i].faceUp
          \/ ~cards[i + 1].faceUp
          \/ cards[i].suit # cards[i + 1].suit
          \/ RankPos[cards[i].rank] # RankPos[cards[i + 1].rank] + 1

\* The handler that returned a left the game state and the history as
\* they are and raised no fault.
SilentNoOp(a) ==
    a.gameState = gameState /\ a.history = history /\ ~a.fault

\* The request to move the cards fromRow .. end of fromCol to any column,
\* made to doTableauMove for every row and, for the rows that can be
\* dragged, made through a drop.
RefusesBadGroup(fromCol, fromRow) ==
    \A group \in {SliceFrom(gameState.tableau[fromCol], fromRow)} :
        NotMovableRun(group) =>
            \A toCol \in Cols :
                /\ \A a \in {doTableauMove(App, fromCol, fromRow, toCol)} : SilentNoOp(a)
                /\ isDraggable(App, fromCol, fromRow) =>
                      \A d \in {dragAndDrop(App, fromCol, fromRow, toCol)} : SilentNoOp(d)

\* C8: a tableau move request whose group has 2 or more cards and is not a
\* movable run (a member face-down, a suit mismatch, or ranks not strictly
\* consecutive descending) is refused as a silent no-op: tableau, stock,
\* completedRuns, moves and history stay as they are and no error is raised.
C8_BadGroupIsSilentNoOp ==
    WithinPlay =>
        \A fromCol \in Cols : \A fromRow \in Rows(fromCol) :
            RefusesBadGroup(fromCol, fromRow)

\* A face-up card that leads a group which is no movable run fits on
\* another pile: the drop passes canDropCard and doTableauMove refuses it.
C8_BadGroupReachesEngineWitness ==
    /\ ~gameIsOver
    /\ WithinPlay
    /\ \E fromCol \in Cols : \E fromRow \in Rows(fromCol) : \E toCol \in Cols \ {fromCol} :
          /\ isDraggable(App, fromCol, fromRow)
          /\ NotMovableRun(SliceFrom(gameState.tableau[fromCol], fromRow))
          /\ Len(gameState.tableau[toCol]) > 0
          /\ canDropCard(gameState.tableau[fromCol][fromRow + 1], gameState.tableau[toCol])
          /\ dragAndDrop(App, fromCol, fromRow, toCol) = App

\* A drop on toCol while dragState names (fromCol, fromRow).
DropWithDragState(fromCol, fromRow, toCol) ==
    onDrop([App EXCEPT !.dragState = <<[fromCol |-> fromCol, fromRow |-> fromRow]>>], toCol)

\* C9: a tableau move request whose card index is at or beyond the length
\* of the source pile, so that the moving group is empty, is a no-op for
\* every destination pile: game state (moves included) and history stay as
\* they are and no fault is raised.
C9_OutOfRangeIndexIsNoOp ==
    ~gameIsOver =>
        \A fromCol \in Cols : \A toCol \in Cols :
        \A fromRow \in {Len(gameState.tableau[fromCol]), Len(gameState.tableau[fromCol]) + 1} :
            LET d == DropWithDragState(fromCol, fromRow, toCol)
                a == doTableauMove(App, fromCol, fromRow, toCol)
            IN  /\ d.gameState = gameState /\ d.history = history /\ ~d.fault
                /\ a.gameState = gameState /\ a.history = history

\* A pile is empty and a drop on it with an index beyond the source pile
\* is counted as a move: the empty group passes both tests.
C9_EmptyGroupCountedAsMoveWitness ==
    /\ ~gameIsOver
    /\ \E fromCol \in Cols : \E toCol \in Cols \ {fromCol} :
          LET d == DropWithDragState(fromCol, Len(gameState.tableau[fromCol]), toCol)
          IN  /\ Len(gameState.tableau[toCol]) = 0
              /\ Len(gameState.tableau[fromCol]) > 0
              /\ d.gameState.moves = gameState.moves + 1
              /\ d.gameState.tableau = gameState.tableau
              /\ d.history = Append(history, gameState)

\* The cards the placement rule is tried on: every card of the tableau.
PlacementAsStated(fromCol, fromRow) ==
    LET card == gameState.tableau[fromCol][fromRow + 1]
    IN  /\ canDropCard(card, << >>) = TRUE
        /\ \A toCol \in Cols :
              LET dest == gameState.tableau[toCol]
              IN  IF Len(dest) = 0 THEN canDropCard(card, dest) = TRUE
                  ELSE canDropCard(card, dest) =
                          (/\ RankPos[card.rank] = RankPos[Last(dest).rank] - 1
                           /\ card.suit = Last(dest).suit)

\* C10: canDropCard returns true for every lead card when the destination
\* pile is empty; for a non-empty destination it returns true if and only
\* if the rank of the lead card is exactly one below the rank of the top
\* card of the destination and the two cards have the same suit.
C10_PlacementRule ==
    \A fromCol \in Cols : \A fromRow \in Rows(fromCol) :
        PlacementAsStated(fromCol, fromRow)

\* A drop has just put a card on a pile that was empty.
C10_DroppedOnEmptyPileWitness ==
    /\ Len(history) > 0
    /\ Last(history).stock = gameState.stock
    /\ \E toCol \in Cols :
          /\ Len(Last(history).tableau[toCol]) = 0
          /\ Len(gameState.tableau[toCol]) > 0
          /\ \E fromCol \in Cols \ {toCol} :
              \E fromRow \in 0 .. (Len(Last(history).tableau[fromCol]) - 1) :
                /\ isDraggable(Before, fromCol, fromRow)
                /\ dragAndDrop(Before, fromCol, fromRow, toCol).gameState = gameState

\* A group is movable as the rule states it: one card always; two or more
\* cards when each card and the next one are both face-up, of one suit, and
\* the earlier card is exactly one rank above the next.
MovableAsStated(cards) ==
    \/ Len(cards) = 1
    \/ /\ Len(cards) >= 2
       /\ \A i \in 1 .. (Len(cards) - 1) :
             /\ cards[i].faceUp /\ cards[i + 1].faceUp
             /\ cards[i].suit = cards[i + 1].suit
             /\ RankPos[cards[i].rank] = RankPos[cards[i + 1].rank] + 1

ValidatorAgrees(cards) == isValidSpiderRun(cards) = MovableAsStated(cards)

\* The top card of a pile, face-down when the pile index is odd.
TopCard(col) ==
    [Last(gameState.tableau[col]) EXCEPT !.faceUp = @ /\ col % 2 = 0]

\* C11: isValidSpiderRun returns true for every group of exactly one card;
\* for a group of 2 or more cards it returns true if and only if every
\* adjacent pair is both face-up, of one suit, and the earlier card's rank
\* is exactly one above the next card's rank.  The groups are every run of
\* neighbouring cards of every pile, and every pair and triple of top cards
\* of the piles as they lie and with one of them turned face-down.
C11_MovableRunRule ==
    /\ \A col \in Cols : \A from \in 1 .. Len(gameState.tableau[col]) :
          \A to \in from .. Len(gameState.tableau[col]) :
              ValidatorAgrees(SubSeq(gameState.tableau[col], from, to))
    /\ \A a \in Cols : \A b \in Cols :
          Len(gameState.tableau[a]) > 0 /\ Len(gameState.tableau[b]) > 0 =>
              /\ ValidatorAgrees(<<Last(gameState.tableau[a]), Last(gameState.tableau[b])>>)
              /\ ValidatorAgrees(<<Last(gameState.tableau[a]), TopCard(b)>>)
              /\ ValidatorAgrees(<<TopCard(a), Last(gameState.tableau[b])>>)
              /\ \A c \in Cols :
                    Len(gameState.tableau[c]) > 0 =>
                        ValidatorAgrees(<<Last(gameState.tableau[a]),
                                          Last(gameState.tableau[b]),
                                          Last(gameState.tableau[c])>>)

\* The validator has accepted a run of three cards lying on a pile, turns
\* down two face-up top cards one rank apart of different suits, and turns
\* down a pair of one suit one rank apart whose second card is face-down.
C11_RunAndNonRunWitness ==
    /\ \E col \in Cols :
          /\ Len(gameState.tableau[col]) >= 3
          /\ isValidSpiderRun(SliceLast(gameState.tableau[col], 3))
    /\ \E a \in Cols : \E b \in Cols :
          /\ Len(gameState.tableau[a]) > 0 /\ Len(gameState.tableau[b]) > 0
          /\ Last(gameState.tableau[a]).suit # Last(gameState.tableau[b]).suit
          /\ RankPos[Last(gameState.tableau[a]).rank]
                = RankPos[Last(gameState.tableau[b]).rank] + 1
          /\ ~isValidSpiderRun(<<Last(gameState.tableau[a]), Last(gameState.tableau[b])>>)
    /\ \E a \in Cols : \E b \in Cols :
          /\ Len(gameState.tableau[a]) > 0 /\ Len(gameState.tableau[b]) > 0
          /\ Last(gameState.tableau[a]).faceUp /\ ~TopCard(b).faceUp
          /\ Last(gameState.tableau[a]).suit = TopCard(b).suit
          /\ RankPos[Last(gameState.tableau[a]).rank] = RankPos[TopCard(b).rank] + 1
          /\ ~isValidSpiderRun(<<Last(gameState.tableau[a]), TopCard(b)>>)

\* The source pile keeps a card under the group taken from fromRow and that
\* card is face-down.
Exposes(fromCol, fromRow) ==
    fromRow > 0 /\ ~gameState.tableau[fromCol][fromRow].faceUp

\* Between the present tableau and the tableau after, the card under the
\* group taken from (fromCol, fromRow) has become face-up if it was
\* face-down, and every other card found in both has kept its faceUp value.
FlipsAsStated(after, fromCol, fromRow) ==
    /\ Exposes(fromCol, fromRow) =>
          /\ Len(after[fromCol]) >= fromRow
          /\ after[fromCol][fromRow].id = gameState.tableau[fromCol][fromRow].id
          /\ after[fromCol][fromRow].faceUp
    /\ \A c \in Cols : \A i \in 1 .. Len(gameState.tableau[c]) :
       \A c2 \in Cols : \A j \in 1 .. Len(after[c2]) :
          gameState.tableau[c][i].id = after[c2][j].id =>
              \/ gameState.tableau[c][i].faceUp = after[c2][j].faceUp
              \/ Exposes(fromCol, fromRow) /\ c = fromCol /\ i = fromRow

FlipsAtMostOne(fromCol, fromRow, toCol) ==
    \A a \in {dragAndDrop(App, fromCol, fromRow, toCol)} :
        Accepted(a) =>
            /\ FlipsAsStated(a.gameState.tableau, fromCol, fromRow)
            /\ a.gameState.stock = gameState.stock

\* C12: an accepted tableau move flips at most one card face-up: if the
\* source pile is non-empty after truncation and its new top card is
\* face-down, exactly that card becomes face-up; no other card changes its
\* faceUp value in the transition.  The same holds of the tableau move of
\* auto-play.
C12_MoveFlipsAtMostOneCard ==
    WithinPlay =>
        /\ ForEveryGesture(FlipsAtMostOne)
        /\ autoPlayBranch(gameState) = "move" =>
              \A m \in {firstTableauMove(gameState.tableau)} :
              \A a \in {autoPlayNextMove(App)} :
                  /\ FlipsAsStated(a.gameState.tableau, m[1], m[2])
                  /\ a.gameState.stock = gameState.stock

\* A drop has just taken the face-up cards off a pile that kept face-down
\* cards: the card that came to the top is now face-up and the one under
\* it is still face-down.
C12_ExposedCardFlippedWitness ==
    /\ Len(history) > 0
    /\ \E fromCol \in Cols : \E toCol \in Cols \ {fromCol} :
        \E fromRow \in 2 .. (Len(Last(history).tableau[fromCol]) - 1) :
          /\ isDraggable(Before, fromCol, fromRow)
          /\ dragAndDrop(Before, fromCol, fromRow, toCol).gameState = gameState
          /\ ~Last(history).tableau[fromCol][fromRow].faceUp
          /\ Len(gameState.tableau[fromCol]) = fromRow
          /\ gameState.tableau[fromCol][fromRow].faceUp
          /\ ~gameState.tableau[fromCol][fromRow - 1].faceUp

\* The drop of (fromCol, fromRow) on toCol is one the rules accept: the
\* game is not over, the group is movable and its lead card may be placed
\* on the destination.
LegalDrop(fromCol, fromRow, toCol) ==
    /\ ~gameIsOver
    /\ MovableGroup(gameState.tableau[fromCol], fromRow)
    /\ Placeable(gameState.tableau[fromCol][fromRow + 1], gameState.tableau[toCol])

\* moves after the handler that returned a: one more when the request was
\* legal, the same when it was not.
CountsIff(legal, a) ==
    a.gameState.moves = IF legal THEN gameState.moves + 1 ELSE gameState.moves

DropCounts(fromCol, fromRow, toCol) ==
    \A a \in {dragAndDrop(App, fromCol, fromRow, toCol)} :
        CountsIff(LegalDrop(fromCol, fromRow, toCol), a)

\* C13: moves grows by exactly 1 on every accepted tableau move, accepted
\* stock deal and auto-play action (clear, move or deal), is unchanged by
\* every rejected request (a drop the rules refuse, a stock click while the
\* game is over, the stock is empty or a pile is empty, an auto-play step
\* that finds nothing to do), and is never incremented by undo, which puts
\* back the value of the state it restores.
C13_MovesCountsAcceptedOperations ==
    /\ WithinPlay => ForEveryGesture(DropCounts)
    /\ \A a \in {stockClick(App)} :
          CountsIff(~gameIsOver /\ ~DealBlocked(gameState), a)
    /\ \A a \in {autoPlayNextMove(App)} :
          CountsIff(\/ ~NoCompletableRun(gameState.tableau)
                    \/ ~NoPlaceableGroup(gameState.tableau)
                    \/ ~DealBlocked(gameState), a)
    /\ \A a \in {handleUndo(App)} :
          /\ a.gameState.moves <= gameState.moves
          /\ a.gameState.moves =
                IF Len(history) > 0 THEN Last(history).moves ELSE gameState.moves

\* Two operations have been counted, the last one an auto-play action;
\* a draggable card has a pile that refuses it and that drop leaves moves
\* as it is; undo would bring moves back by one.
C13_CountedAndRefusedWitness ==
    /\ ~gameIsOver
    /\ WithinPlay
    /\ gameState.moves = 2
    /\ Len(history) = 2
    /\ autoPlayNextMove(Before).gameState = gameState
    /\ handleUndo(App).gameState.moves = 1
    /\ \E fromCol \in Cols : \E fromRow \in Rows(fromCol) : \E toCol \in Cols \ {fromCol} :
          /\ isDraggable(App, fromCol, fromRow)
          /\ ~LegalDrop(fromCol, fromRow, toCol)
          /\ dragAndDrop(App, fromCol, fromRow, toCol).gameState.moves = 2

\* Nothing can be done in the state: no complete run, no group that may be
\* placed on another pile, and no deal.
Stuck(state) ==
    /\ NoCompletableRun(state.tableau)
    /\ NoPlaceableGroup(state.tableau)
    /\ DealBlocked(state)

\* The handler that returned a was accepted and the flag is set if it left
\* a state in which nothing can be done.
FlagsStuckState(a) ==
    Accepted(a) /\ Stuck(a.gameState) => a.gameIsOver

DropFlagsStuckState(fromCol, fromRow, toCol) ==
    \A a \in {dragAndDrop(App, fromCol, fromRow, toCol)} : FlagsStuckState(a)

\* C14: after every accepted manual tableau move or stock deal the terminal
\* detector is applied to the resulting state: if that state has no legal
\* move, the game-over flag is true in the state immediately after the
\* operation.
C14_ManualOperationFlagsTerminalState ==
    /\ WithinPlay => ForEveryGesture(DropFlagsStuckState)
    /\ \A a \in {stockClick(App)} : FlagsStuckState(a)

\* A stock click has just dealt the last cards onto a board where nothing
\* can be done, and the click itself has set the flag.
DealEndedGame ==
    /\ Len(history) > 0
    /\ gameIsOver
    /\ Stuck(gameState)
    /\ stockClick(Before).gameState = gameState
    /\ stockClick(Before).gameIsOver

\* A drop has just left a board where nothing can be done and has set the
\* flag.
C14_MoveEndedGameWitness ==
    /\ Len(history) > 0
    /\ gameIsOver
    /\ Stuck(gameState)
    /\ \E fromCol \in Cols : \E toCol \in Cols \ {fromCol} :
        \E fromRow \in 0 .. (Len(Last(history).tableau[fromCol]) - 1) :
          /\ isDraggable(Before, fromCol, fromRow)
          /\ dragAndDrop(Before, fromCol, fromRow, toCol).gameState = gameState
          /\ dragAndDrop(Before, fromCol, fromRow, toCol).gameIsOver

\* The tableau right after the deal of the stock's top cards, one per pile.
DealtTableau(state) ==
    [c \in Cols |->
        IF c < Len(state.stock)
        THEN state.tableau[c]
                \o <<[state.stock[Len(state.stock) - c] EXCEPT !.faceUp = TRUE]>>
        ELSE state.tableau[c]]

\* The handler that returned a has dealt from the stock and has swept the
\* runs the deal completed.
DealSwept(a) ==
    Len(a.gameState.stock) < Len(gameState.stock) =>
        /\ NoCompletableRun(a.gameState.tableau)
        /\ a.gameState.completedRuns =
              gameState.completedRuns
                + Cardinality({c \in Cols : TopRun(DealtTableau(gameState)[c])})

\* C15: a stock deal performs the same completed-run sweep as a tableau
\* move: in the state produced by any accepted stock deal, manual or by
\* auto-play, no pile has 13 face-up same-suit King-to-Ace cards on top, and
\* completedRuns has grown by one for each run the deal completed.
C15_DealSweepsCompletedRuns ==
    \A a \in {stockClick(App), autoPlayNextMove(App)} : DealSwept(a)

\* A stock click has just dealt the card that completes a run: the 13
\* cards still lie on their pile and completedRuns has not moved.
C15_UnsweptRunAfterDealWitness ==
    /\ Len(history) > 0
    /\ stockClick(Before).gameState = gameState
    /\ Len(gameState.stock) < Len(Last(history).stock)
    /\ gameState.completedRuns = Last(history).completedRuns
    /\ \E c \in Cols :
          /\ TopRun(gameState.tableau[c])
          /\ ~TopRun(Last(history).tableau[c])

\* The deck is as the factory's contract states it for numSuits suits:
\* 26 cards per suit, all face-down, ids all different, and two cards of
\* each suit and rank among the first numSuits suits.
DeckAsStated(deck, numSuits) ==
    /\ Len(deck) = 26 * numSuits
    /\ \A i \in 1 .. Len(deck) : ~deck[i].faceUp
    /\ Cardinality({deck[i].id : i \in 1 .. Len(deck)}) = Len(deck)
    /\ \A s \in 1 .. numSuits : \A r \in 1 .. Len(RANKS) :
          Cardinality({i \in 1 .. Len(deck) :
                          deck[i].suit = SUITS[s] /\ deck[i].rank = RANKS[r]}) = 2

\* The number of draws of the shuffle of the largest deck.
LastDraw == NumDecks * Len(SUITS) * Len(RANKS) - 1

\* Outcomes of the draws that do not depend on the state: the two shuffles
\* of the game, j = 0 at every step, j = i at every step (no card moves)
\* and j = i - 1 at every step.
FixedDraws ==
    {ShuffleA, ShuffleB,
     [i \in 1 .. LastDraw |-> 0], [i \in 1 .. LastDraw |-> i], [i \in 1 .. LastDraw |-> i - 1]}

\* The factory keeps its contract on the fixed draws, for 1 to 4 suits.
FactoryOnFixedDraws ==
    \A numSuits \in 1 .. Len(SUITS) : \A js \in FixedDraws :
        DeckAsStated(generateShuffledSpiderDeck(numSuits, js), numSuits)

\* An outcome of the draws read off the lie of the cards, so that every
\* reachable state tries another shuffle: the j of step i is taken from the
\* rank of a tableau card and from moves, reduced to 0 .. i.
StateDraw(i) ==
    LET p == gameState.tableau[i % NumCols]
        v == IF Len(p) = 0 THEN i
             ELSE rankValue(p[((i \div NumCols) % Len(p)) + 1].rank) * (i + gameState.moves)
    IN  v % (i + 1)

FirstOfPile(c) == IF c < 4 THEN 6 * c ELSE 24 + 5 * (c - 4)

\* dealt is the deal of the 104-card deck as the dealer's contract states
\* it: deck cards 0 .. 53 in order on the piles, 6 on piles 0-3 and 5 on
\* piles 4-9, the top card of each pile face-up and the others face-down,
\* the other 50 cards as the stock in deck order.
DealAsStated(deck, dealt) ==
    /\ \A c \in Cols :
          /\ Len(dealt.tableau[c]) = IF c < 4 THEN 6 ELSE 5
          /\ \A r \in 1 .. Len(dealt.tableau[c]) :
                dealt.tableau[c][r] =
                    [deck[FirstOfPile(c) + r] EXCEPT !.faceUp = (r = Len(dealt.tableau[c]))]
    /\ Len(dealt.stock) = 50
    /\ dealt.stock = SubSeq(deck, 55, 104)

\* The deck with every third card turned face-up, to see what the dealer
\* does with the faceUp value it is given.
EveryThirdUp(deck) ==
    [i \in 1 .. Len(deck) |-> [deck[i] EXCEPT !.faceUp = (i % 3 = 0)]]

\* The dealer keeps its contract on the decks that do not depend on the
\* state: the two shuffles of the game and the unshuffled deck with every
\* third card face-up.
DealOnFixedDecks ==
    \A deck \in {generateShuffledSpiderDeck(GameSuits, js) : js \in ShuffleOutcomes}
                    \cup {EveryThirdUp(OrderedDeck(GameSuits))} :
        DealAsStated(deck, dealSpiderTableau(deck))

\* C17: dealing a 104-card deck puts deck cards 0 .. 53 in order into 10
\* piles, 6 cards in each of piles 0-3 and 5 cards in each of piles 4-9,
\* with exactly the top card of each pile face-up and every other tableau
\* card face-down, and leaves the remaining 50 cards as the stock in their
\* deck order.  The decks are the fixed ones and the deck of the shuffle
\* read off the present state.
C17_DealLayout ==
    /\ DealOnFixedDecks
    /\ \A deck \in {generateShuffledSpiderDeck(GameSuits, [i \in 1 .. LastDraw |-> StateDraw(i)])} :
          DealAsStated(deck, dealSpiderTableau(deck))

\* The game lies as dealt from the second shuffle: ten cards are face-up,
\* one on top of each pile, and the stock holds 50 cards.
C17_FreshDealWitness ==
    /\ gameState.moves = 0
    /\ Len(history) = 0
    /\ Len(gameState.stock) = 50
    /\ DealAsStated(generateShuffledSpiderDeck(GameSuits, ShuffleB), gameState)
    /\ \A c \in Cols :
          Cardinality({r \in 1 .. Len(gameState.tableau[c]) :
                          gameState.tableau[c][r].faceUp}) = 1

\* C18: undo with an empty history is a no-op: the game state, the history
\* and the terminal flag are all unchanged.
C18_UndoOnEmptyHistoryIsNoOp ==
    Len(history) = 0 =>
        \A a \in {handleUndo(App)} :
            /\ a.gameState = gameState
            /\ a.history = history
            /\ a.gameIsOver = gameIsOver
            /\ a = App

\* The history is empty and the flag is set (a callback of auto-play ran
\* after a restart): undo leaves the flag set.
C18_EmptyHistoryFlagSetWitness ==
    /\ Len(history) = 0
    /\ gameIsOver
    /\ handleUndo(App).gameIsOver
    /\ handleUndo(App).gameState = gameState

\* C19: undo clears the terminal flag so that a game that reached a
\* terminal state can be made playable again: from every state with the
\* game-over flag true and a non-empty history an undo request can be made,
\* and it restores the previous state and sets the flag to false.
C19_UndoRevivesTerminalGame ==
    gameIsOver /\ Len(history) > 0 =>
        /\ ~undoDisabled(App)
        /\ \A a \in {handleUndo(App)} :
              /\ a.gameState = Last(history)
              /\ a.history = Front(history)
              /\ ~a.gameIsOver

\* A stock click has ended the game; the state before it had a legal move
\* and handleUndo would bring it back with the flag cleared, but the Undo
\* button is disabled.
C19_UndoDisabledInTerminalStateWitness ==
    /\ DealEndedGame
    /\ undoDisabled(App)
    /\ isAnyMovePossible(Last(history))
    /\ handleUndo(App).gameState = Last(history)
    /\ ~handleUndo(App).gameIsOver

\* Every card of the state: the piles from 0 to 9, then the stock.
RECURSIVE PilesFrom(_, _)
PilesFrom(tableau, c) ==
    IF c >= NumCols THEN << >> ELSE tableau[c] \o PilesFrom(tableau, c + 1)

AllCards(state) == PilesFrom(state.tableau, 0) \o state.stock

\* The state is a fresh deal: 6 cards on piles 0-3 and 5 on piles 4-9, on
\* each pile the top card face-up and the others face-down, 50 face-down
\* cards in the stock, 104 cards with different ids in all, and both
\* counters at 0.
FreshGame(state) ==
    /\ state.moves = 0
    /\ state.completedRuns = 0
    /\ \A c \in Cols :
          /\ Len(state.tableau[c]) = IF c < 4 THEN 6 ELSE 5
          /\ \A r \in 1 .. Len(state.tableau[c]) :
                state.tableau[c][r].faceUp = (r = Len(state.tableau[c]))
    /\ Len(state.stock) = 50
    /\ \A i \in 1 .. Len(state.stock) : ~state.stock[i].faceUp
    /\ Cardinality({AllCards(state)[i].id : i \in 1 .. Len(AllCards(state))}) = 104

\* C20: starting a new game from any reachable state yields a freshly
\* dealt state with moves = 0 and completedRuns = 0, an empty history, and
\* the game-over flag false.
C20_RestartYieldsFreshGame ==
    \A fresh \in InitialStates :
        \A a \in {handleRestart(App, fresh)} :
            /\ FreshGame(a.gameState)
            /\ a.history = << >>
            /\ ~a.gameIsOver

\* The game has been restarted while the callback of an auto-play step
\* that found the game at its end was still pending.
C20_RestartedWitness ==
    /\ FreshGame(gameState)
    /\ history = << >>
    /\ ~gameIsOver
    /\ Len(timers) > 0
    /\ Head(timers)

\* No face-down card of the pile lies above a face-up card.
FaceUpIsSuffix(pile) ==
    \A i \in 1 .. (Len(pile) - 1) : pile[i].faceUp => pile[i + 1].faceUp

\* The ids of the tableau cards that show the given face.
IdsShowing(tableau, face) ==
    UNION {{tableau[c][i].id : i \in {k \in 1 .. Len(tableau[c]) :
                                        tableau[c][k].faceUp = face}} : c \in Cols}

\* The accepted operation that returned a left every card that was face-up
\* on the tableau face-up wherever it now lies on the tableau.
KeepsFaceUp(a) ==
    Accepted(a) =>
        /\ IdsShowing(gameState.tableau, TRUE)
              \cap IdsShowing(a.gameState.tableau, FALSE) = {}
        /\ \A c \in Cols : FaceUpIsSuffix(a.gameState.tableau[c])

DropKeepsFaceUp(fromCol, fromRow, toCol) ==
    \A a \in {dragAndDrop(App, fromCol, fromRow, toCol)} : KeepsFaceUp(a)

\* C21: in every reachable state the face-up cards of each tableau pile are
\* the top cards of the pile (no face-down card lies above a face-up one),
\* and no tableau move, stock deal or auto-play step turns a face-up tableau
\* card face-down.
C21_FaceUpCardsStayOnTop ==
    /\ \A c \in Cols : FaceUpIsSuffix(gameState.tableau[c])
    /\ WithinPlay => ForEveryGesture(DropKeepsFaceUp)
    /\ \A a \in {stockClick(App), autoPlayNextMove(App)} : KeepsFaceUp(a)

\* The last operation turned a card up where it lay, and a pile shows two
\* or more face-up cards on top of a face-down one.
C21_FlippedAndCoveredWitness ==
    /\ Len(history) > 0
    /\ \E c \in Cols : \E i \in 1 .. Len(gameState.tableau[c]) :
          /\ i <= Len(Last(history).tableau[c])
          /\ ~Last(history).tableau[c][i].faceUp
          /\ gameState.tableau[c][i].faceUp
    /\ \E c \in Cols : \E i \in 1 .. (Len(gameState.tableau[c]) - 2) :
          /\ ~gameState.tableau[c][i].faceUp
          /\ gameState.tableau[c][i + 1].faceUp
          /\ gameState.tableau[c][i + 2].faceUp

\* The lowest pile with a complete run on top.
LowestRunPile(tableau) ==
    CHOOSE c \in Cols :
        TopRun(tableau[c]) /\ \A b \in Cols : TopRun(tableau[b]) => c <= b

\* The auto-play step that returned a, taken in the component state app,
\* removed the 13 top cards of the lowest pile with a complete run and
\* counted one full move.
ClearedLowestRun(app, a) ==
    \A before \in {app.gameState} : \A c \in {LowestRunPile(before.tableau)} :
        /\ a.gameState.tableau[c] =
              SubSeq(before.tableau[c], 1, Len(before.tableau[c]) - RunLen)
        /\ \A o \in Cols \ {c} : a.gameState.tableau[o] = before.tableau[o]
        /\ a.gameState.stock = before.stock
        /\ a.gameState.completedRuns = before.completedRuns + 1
        /\ a.gameState.moves = before.moves + 1
        /\ a.history = Append(app.history, before)

\* The other copy of the card: the two decks hold each suit and rank twice.
Twin(card) == [card EXCEPT !.id = <<@[1], @[2], 1 - @[3]>>]

\* The state with the 13 cards that pair with the run of pile c taken from
\* where they lie and laid as a second run on pile d.
WithSecondRun(state, c, d) ==
    LET run == SubSeq(state.tableau[c], Len(state.tableau[c]) - RunLen + 1,
                      Len(state.tableau[c]))
        second == [i \in 1 .. RunLen |-> Twin(run[i])]
        taken == {second[i].id : i \in 1 .. RunLen}
        Left(cards) == SelectSeq(cards, LAMBDA x : x.id \notin taken)
    IN  [state EXCEPT
            !.tableau = [p \in Cols |->
                            IF p = d THEN Left(state.tableau[p]) \o second
                            ELSE Left(state.tableau[p])],
            !.stock = Left(state.stock)]

\* C22: when an auto-play step clears a completed run it removes the top 13
\* cards of the lowest-indexed pile holding such a run and counts as one
\* full move: completedRuns grows by exactly 1, moves by exactly 1, the
\* state before the step is pushed to history, and no other pile and not
\* the stock changes.  With a run on one pile only this is checked in the
\* state itself, and with two runs at once on the board that has the
\* second run laid on another pile.
C22_AutoPlayClearIsOneFullMove ==
    ~NoCompletableRun(gameState.tableau) =>
        /\ ClearedLowestRun(App, autoPlayNextMove(App))
        /\ gameState.completedRuns = 0 =>
              \A c \in {LowestRunPile(gameState.tableau)} : \A d \in Cols \ {c} :
                  \A app \in {[App EXCEPT !.gameState = WithSecondRun(gameState, c, d)]} :
                      /\ TopRun(app.gameState.tableau[c])
                      /\ TopRun(app.gameState.tableau[d])
                      /\ ClearedLowestRun(app, autoPlayNextMove(app))

\* Auto-play has just cleared the run of a pile, from a board on which no
\* run had been cleared before, so that the second run could be laid on it.
C22_AutoPlayClearedRunWitness ==
    /\ Len(history) > 0
    /\ Len(timers) > 0
    /\ Last(history).completedRuns = 0
    /\ gameState.completedRuns = 1
    /\ gameState.moves = Last(history).moves + 1
    /\ \E c \in Cols :
          /\ TopRun(Last(history).tableau[c])
          /\ Len(gameState.tableau[c]) + RunLen = Len(Last(history).tableau[c])
          /\ \E d \in Cols \ {c} :
                TopRun(WithSecondRun(Last(history), c, d).tableau[d])
    /\ autoPlayNextMove(Before).gameState = gameState

\* The component state once every pending setTimeout callback has run.
RECURSIVE AfterCallbacks(_)
AfterCallbacks(app) ==
    IF Len(app.timers) = 0 THEN app ELSE AfterCallbacks(runTimer(app))

\* The step that returned a took no action: the game state and the history
\* are the ones it started from.
NoAction(a) == a.gameState = gameState /\ a.history = history

\* C23: an auto-play step takes no action if and only if the terminal
\* detector finds no move on the current state (nothing can be done on it);
\* when it takes no action the game state and the history are unchanged and
\* the game-over flag is raised once the callback it scheduled has run, and
\* when the detector finds a move the step always changes the state.
C23_AutoPlayIdleIffNoMove ==
    \A a \in {autoPlayNextMove(App)} : \A idle \in {NoAction(a)} :
        /\ idle <=> ~isAnyMovePossible(gameState)
        /\ idle <=> Stuck(gameState)
        /\ idle => /\ Len(a.timers) = Len(timers) + 1
                   /\ Last(a.timers)
                   /\ AfterCallbacks(a).gameIsOver
        /\ ~idle => /\ a.gameState # gameState
                    /\ a.gameState.moves = gameState.moves + 1

\* Auto Play was clicked on a board where nothing can be done before the
\* callback of the step that led to it had run: the click changed nothing
\* and its callback waits behind the first one to raise the flag.
C23_IdleStepTakenWitness ==
    /\ Stuck(gameState)
    /\ ~gameIsOver
    /\ Len(timers) = 2
    /\ timers[1] /\ timers[2]
    /\ autoPlayNextMove([App EXCEPT !.timers = Front(timers)]) = App

\* C24: operations are atomic with respect to the terminal flag: in every
\* reachable state, whatever the interleaving of an auto-play step's
\* deferred terminal check with undo, restart, manual moves and stock
\* deals, the game-over flag is true only if the current game state has no
\* legal move.
C24_FlagOnlyOnTerminalState ==
    gameIsOver => ~isAnyMovePossible(gameState)

\* The flag is set on a board that is not the one the deferred check looked
\* at: the callbacks have run, the flag is up, and the current game state
\* still has a move.
C24_FlagOnPlayableBoardWitness ==
    /\ gameIsOver
    /\ Len(timers) = 0
    /\ isAnyMovePossible(gameState)
    /\ ~Stuck(gameState)

\* Number of cards of the two decks of the 4-suit game.
DeckSize == NumDecks * GameSuits * Len(RANKS)

\* C25: cards are conserved: in every reachable state of the 4-suit game
\* the number of tableau cards plus the number of stock cards plus 13 times
\* completedRuns equals 104, no card id occurs twice across tableau and
\* stock, and completedRuns never exceeds 8.
C25_CardsConserved ==
    \A cards \in {AllCards(gameState)} :
        /\ DeckSize = 104
        /\ Len(cards) + RunLen * gameState.completedRuns = DeckSize
        /\ Cardinality({cards[i].id : i \in 1 .. Len(cards)}) = Len(cards)
        /\ gameState.completedRuns <= 8

\* A run has been removed: 91 cards are left on the tableau and in the
\* stock, and the state before it held all 104.
C25_RunRemovedWitness ==
    /\ Len(history) > 0
    /\ gameState.completedRuns = 1
    /\ Len(AllCards(gameState)) = DeckSize - RunLen
    /\ Last(history).completedRuns = 0
    /\ Len(AllCards(Last(history))) = DeckSize

\* C26: in every reachable state every non-empty tableau pile has a face-up
\* top card, including the piles from which a completed 13-card run has
\* just been cleared by the sweep or by auto-play.
C26_TopCardsFaceUp ==
    \A c \in Cols :
        Len(gameState.tableau[c]) > 0 => Last(gameState.tableau[c]).faceUp

\* The last operation removed a complete run from a pile and left the
\* card that lay under the King on top of the pile face-down.
C26_FaceDownTopAfterClearWitness ==
    /\ Len(history) > 0
    /\ gameState.completedRuns = Last(history).completedRuns + 1
    /\ \E c \in Cols :
          /\ Len(gameState.tableau[c]) > 0
          /\ Len(gameState.tableau[c]) < Len(Last(history).tableau[c])
          /\ ~Last(gameState.tableau[c]).faceUp
          /\ \A i \in 1 .. Len(gameState.tableau[c]) :
                gameState.tableau[c][i] = Last(history).tableau[c][i]

\* The accepted operation that returned a pushed exactly one snapshot.
PushesOne(a) == Accepted(a) => Len(a.history) = Len(history) + 1

\* C27: in every reachable state the history length equals the moves
\* counter of the current state and the i-th history entry (counted from
\* 0) has moves = i; every accepted operation pushes exactly one snapshot
\* and undo pops exactly one.
C27_HistoryLengthIsMoves ==
    /\ Len(history) = gameState.moves
    /\ \A i \in 1 .. Len(history) : history[i].moves = i - 1
    /\ \A a \in {stockClick(App), autoPlayNextMove(App)} : PushesOne(a)
    /\ Len(history) > 0 =>
          \A u \in {handleUndo(App)} :
              /\ Len(u.history) = Len(history) - 1
              /\ u.gameState.moves = Len(u.history)

\* Drops, deals and an auto-play step have been recorded, and the state
\* before the last one can be brought back.
C27_RecordedOperationsWitness ==
    /\ Len(history) >= 4
    /\ ~gameIsOver
    /\ \E i \in 1 .. Len(history) : Len(history[i].stock) > Len(gameState.stock)
    /\ gameState.completedRuns = 1
    /\ Len(timers) > 0
    /\ handleUndo(App).gameState.moves = Len(history) - 1

\* The triples (fromPile, fromIndex, toPile) of the tableau moves that are
\* legal: the cards from fromIndex up are a single face-up card or a
\* movable run, and their lead card may be placed on another pile toPile.
LegalTriples(tableau) ==
    UNION {UNION {{<<f, r, t>> : t \in {x \in Cols \ {f} :
                                           Placeable(tableau[f][r + 1], tableau[x])}} :
                  r \in {y \in 0 .. (Len(tableau[f]) - 1) : MovableGroup(tableau[f], y)}} :
           f \in Cols}

LexLess(m, o) ==
    \/ m[1] < o[1]
    \/ m[1] = o[1] /\ m[2] < o[2]
    \/ m[1] = o[1] /\ m[2] = o[2] /\ m[3] < o[3]

LexLeast(triples) ==
    CHOOSE m \in triples : \A o \in triples \ {m} : LexLess(m, o)

\* after comes from the present state by the group (f, r) going to pile t:
\* pile f keeps the cards below r, pile t gets the group on top, the other
\* piles and the stock stay; a pile that a complete run has left is
\* compared by its length only.
MovedTriple(after, f, r, t) ==
    /\ after.stock = gameState.stock
    /\ after.moves = gameState.moves + 1
    /\ \A o \in Cols \ {f, t} : Ids(after.tableau[o]) = Ids(gameState.tableau[o])
    /\ Ids(after.tableau[f]) = Ids(SubSeq(gameState.tableau[f], 1, r))
    /\ \A grown \in {gameState.tableau[t]
                        \o SubSeq(gameState.tableau[f], r + 1, Len(gameState.tableau[f]))} :
          IF after.completedRuns = gameState.completedRuns
          THEN after.tableau[t] = grown
          ELSE after.tableau[t] = SubSeq(grown, 1, Len(grown) - RunLen)

\* The game state auto-play returns is a function of the game state alone:
\* the step gives the same state whatever the history, the flag and the
\* pending callbacks are.
SameFromEqualStates(after) ==
    \A other \in {[App EXCEPT !.history = << >>, !.timers = << >>,
                              !.gameIsOver = ~gameIsOver]} :
        autoPlayNextMove(other).gameState = after

\* C28: the tableau move of auto-play is the lexicographically least
\* triple (fromPile, fromIndex, toPile), toPile different from fromPile,
\* such that the card at fromIndex is face-up, the group from fromIndex to
\* the top is a single card or a movable run and the placement rule accepts
\* its lead card on toPile; two auto-play steps from equal states produce
\* equal states.
C28_AutoPlayMovesLeastTriple ==
    \A after \in {autoPlayNextMove(App).gameState} :
        /\ SameFromEqualStates(after)
        /\ NoCompletableRun(gameState.tableau) =>
              \A legal \in {LegalTriples(gameState.tableau)} :
                  legal # {} =>
                      \A m \in {LexLeast(legal)} :
                          /\ firstTableauMove(gameState.tableau) = m
                          /\ MovedTriple(after, m[1], m[2], m[3])

\* Auto-play has just moved a group that could go onto two piles, and it
\* lies on the lower of them.
C28_ChoiceAmongMovesWitness ==
    /\ Len(history) > 0
    /\ Len(timers) > 0
    /\ NoCompletableRun(Last(history).tableau)
    /\ autoPlayNextMove(Before).gameState = gameState
    /\ \A legal \in {LegalTriples(Last(history).tableau)} :
          /\ legal # {}
          /\ \A m \in {LexLeast(legal)} :
                /\ \E o \in legal : o[1] = m[1] /\ o[2] = m[2] /\ o[3] > m[3]
                /\ Len(gameState.tableau[m[3]]) > Len(Last(history).tableau[m[3]])

\* The manual operation that returned b gives the game state and the
\* history that the auto-play step gave in a.
SameTransition(a, b) ==
    /\ a.gameState.tableau = b.gameState.tableau
    /\ a.gameState.stock = b.gameState.stock
    /\ a.gameState.completedRuns = b.gameState.completedRuns
    /\ a.gameState.moves = b.gameState.moves
    /\ a.history = b.history

\* C29: auto-play performs the same transition as the manual pipeline: the
\* tableau move auto-play chooses yields exactly the state (tableau, stock,
\* completedRuns, moves) and the history that the manual tableau move yields
\* for the same (fromPile, fromIndex, toPile), and the stock deal of
\* auto-play yields exactly the state and history of the manual stock deal.
C29_AutoPlayMatchesManualPipeline ==
    ~gameIsOver =>
        \A a \in {autoPlayNextMove(App)} : \A branch \in {autoPlayBranch(gameState)} :
            /\ branch = "move" =>
                  \A m \in {firstTableauMove(gameState.tableau)} :
                      /\ isDraggable(App, m[1], m[2])
                      /\ SameTransition(a, doTableauMove(App, m[1], m[2], m[3]))
                      /\ SameTransition(a, dragAndDrop(App, m[1], m[2], m[3]))
            /\ branch = "deal" => SameTransition(a, stockClick(App))

\* Auto-play has just moved a group and has turned up the card under it;
\* the drop of the same group on the same pile leads to the same state.
C29_AutoMoveAsManualMoveWitness ==
    /\ Len(history) > 0
    /\ Len(timers) > 0
    /\ autoPlayBranch(Last(history)) = "move"
    /\ autoPlayNextMove(Before).gameState = gameState
    /\ \A m \in {firstTableauMove(Last(history).tableau)} :
          /\ m[2] > 0
          /\ ~Last(history).tableau[m[1]][m[2]].faceUp
          /\ gameState.tableau[m[1]][m[2]].faceUp
          /\ dragAndDrop(Before, m[1], m[2], m[3]).gameState = gameState

\* The tableau with the group (m[1], m[2]) laid on pile m[3], nothing
\* turned up and nothing removed.
ApplyTriple(tableau, m) ==
    [c \in Cols |->
        IF c = m[1] THEN SubSeq(tableau[c], 1, m[2])
        ELSE IF c = m[3]
             THEN tableau[c] \o SubSeq(tableau[m[1]], m[2] + 1, Len(tableau[m[1]]))
             ELSE tableau[c]]

\* The board after the least legal move of the tableau.
AfterLeast(tableau) == ApplyTriple(tableau, LexLeast(LegalTriples(tableau)))

\* The least legal move of the tableau uncovers no face-down card and
\* completes no run, and the least legal move of the board it leaves puts
\* the same cards back: a reciprocal pair of legal moves.
Reciprocal(tableau) ==
    /\ NoCompletableRun(tableau)
    /\ \A legal \in {LegalTriples(tableau)} :
          /\ legal # {}
          /\ \A m \in {LexLeast(legal)} :
                /\ m[2] > 0 => tableau[m[1]][m[2]].faceUp
                /\ \A there \in {ApplyTriple(tableau, m)} :
                      /\ NoCompletableRun(there)
                      /\ \A back \in {LegalTriples(there)} :
                            /\ back # {}
                            /\ ApplyTriple(there, LexLeast(back)) = tableau

\* The game state after one auto-play step from gs.
AutoStep(gs) == autoPlayNextMove([App EXCEPT !.gameState = gs]).gameState

\* k auto-play steps in a row from gs go to the board there, back to the
\* board of gs, and so on; each counts a move, leaves a state with a legal
\* move, and touches neither the stock nor completedRuns.
RECURSIVE Alternates(_, _, _)
Alternates(gs, there, k) ==
    \/ k = 0
    \/ \A g \in {AutoStep(gs)} :
          /\ g.tableau = there
          /\ g.tableau # gs.tableau
          /\ g.stock = gs.stock
          /\ g.completedRuns = gs.completedRuns
          /\ g.moves = gs.moves + 1
          /\ isAnyMovePossible(g)
          /\ Alternates(g, gs.tableau, k - 1)

\* C30: repeated auto-play may cycle: from a reachable state whose least
\* legal tableau move and the least legal move after it form a reciprocal
\* pair, auto-play invoked again and again alternates between the two
\* tableau configurations through legal tableau moves, every step counting
\* a move while stock and completedRuns never change, so that it never
\* reaches a state where no action is taken.
C30_AutoPlayAlternatesOnReciprocalMoves ==
    Reciprocal(gameState.tableau) =>
        Alternates(gameState, AfterLeast(gameState.tableau), CycleDepth)

\* Two auto-play steps in a row have moved a card to another pile and back:
\* the tableau is the one of two steps ago, neither callback raises the
\* flag, and the next step would take the card over again.
C30_BackAfterTwoStepsWitness ==
    /\ Len(history) >= 2
    /\ ~gameIsOver
    /\ \A h \in {Front(history)} : \A old \in {Last(h)} : \A mid \in {Last(history)} :
          /\ old.tableau = gameState.tableau
          /\ mid.tableau # gameState.tableau
          /\ old.stock = gameState.stock
          /\ old.completedRuns = gameState.completedRuns
          /\ AutoStep(old) = mid
          /\ AutoStep(mid) = gameState
          /\ Reciprocal(old.tableau)
    /\ Reciprocal(gameState.tableau)
    /\ \A i \in 1 .. Len(timers) : ~timers[i]

\* ------------------------------------------------------------------ C31

\* The component is as an auto-play step leaves it when the step applied an
\* action (a clear, a tableau move or a deal) and the resulting state has no
\* legal move: the state before the step is on top of the history and the
\* callback queued last will call setGameIsOver(true).
AutoPlayReachedStuckState ==
    /\ Len(history) > 0
    /\ Len(timers) > 0
    /\ Last(timers)
    /\ ~isAnyMovePossible(gameState)
    /\ \A b \in {[App EXCEPT !.gameState = Last(history),
                              !.history = Front(history),
                              !.timers = Front(timers)]} :
          /\ autoPlayBranch(b.gameState) # "none"
          /\ autoPlayNextMove(b) = App

\* C31: after an auto-play step applies an action whose resulting state has
\* no legal move, the game-over flag eventually becomes true, provided the
\* deferred check is eventually run, whatever other operations (undo,
\* restart, further auto-play steps) are requested before it runs.
C31_StuckAutoPlayStepRaisesFlag ==
    AutoPlayReachedStuckState ~> gameIsOver

\* An auto-play step has just applied an action that left no legal move, the
\* flag is still down and the deferred check has not run yet, so Undo and
\* Restart can still be requested before it.
C31_CheckPendingAfterStuckStepWitness ==
    /\ AutoPlayReachedStuckState
    /\ ~gameIsOver
    /\ ~undoDisabled(App)

\* ------------------------------------------------------------------ C32

\* An accepted drop of (fromCol, fromRow) on toCol keeps the stock and every
\* pile that is neither the source nor the destination.
KeepsOtherPiles(fromCol, fromRow, toCol) ==
    \A a \in {dragAndDrop(App, fromCol, fromRow, toCol)} :
        Accepted(a) =>
            /\ a.gameState.stock = gameState.stock
            /\ \A c \in Cols \ {fromCol, toCol} :
                  a.gameState.tableau[c] = gameState.tableau[c]

\* C32: an accepted tableau move leaves the stock unchanged and leaves every
\* pile other than the source pile and the destination pile unchanged.
C32_MoveKeepsStockAndOtherPiles == WithinPlay => ForEveryGesture(KeepsOtherPiles)

\* A drop has just been accepted and a pile that was neither its source nor
\* its destination has lost the complete run a deal had left on it.
C32_ThirdPileSweptWitness ==
    /\ Len(history) > 0
    /\ gameState.completedRuns = Last(history).completedRuns + 1
    /\ \E fromCol \in Cols : \E toCol \in Cols \ {fromCol} :
       \E fromRow \in 0 .. (Len(Last(history).tableau[fromCol]) - 1) :
          /\ isDraggable(Before, fromCol, fromRow)
          /\ dragAndDrop(Before, fromCol, fromRow, toCol).gameState = gameState
          /\ \E c \in Cols \ {fromCol, toCol} :
                /\ TopRun(Last(history).tableau[c])
                /\ Len(gameState.tableau[c]) = Len(Last(history).tableau[c]) - RunLen

\* ------------------------------------------------------------------ C33

\* A step that is a restart: the history is emptied, the flag is lowered and
\* the game state is a freshly dealt one.
RestartStep ==
    /\ gameState' \in InitialStates
    /\ history' = << >>
    /\ ~gameIsOver'

NonTerminalAsDealt(state) ==
    /\ \A c \in Cols : Len(state.tableau[c]) > 0
    /\ Len(state.stock) > 0
    /\ isAnyMovePossible(state)

\* C34: every freshly dealt state of the 4-suit game is non-terminal:
\* right after the initial deal or a restart all 10 piles are non-empty and
\* the stock is non-empty, so isAnyMovePossible is true.  The fresh states
\* are the ones of the two shuffles of the game, the one a restart puts in
\* place, and the one dealt from the shuffle read off the present state.
C34_FreshDealIsNonTerminal ==
    /\ (history = << >> /\ gameState.moves = 0) => NonTerminalAsDealt(gameState)
    /\ \A fresh \in InitialStates :
          NonTerminalAsDealt(handleRestart(App, fresh).gameState)
    /\ NonTerminalAsDealt(generateInitialState([i \in 1 .. LastDraw |-> StateDraw(i)]))

\* The game has been restarted, after at least one operation and with a
\* callback of the old game still pending, and lies as freshly dealt.
C34_FreshAfterRestartWitness ==
    /\ history = << >>
    /\ gameState.moves = 0
    /\ gameState \in InitialStates
    /\ ~gameIsOver
    /\ Len(timers) > 0
    /\ NonTerminalAsDealt(gameState)

\* ------------------------------------------------------------------ C35

\* The stock holds a whole number of deals, at most five, all face-down.
StockInWholeDeals(stock) ==
    /\ Len(stock) % NumCols = 0
    /\ Len(stock) >= 0
    /\ Len(stock) <= 5 * NumCols
    /\ \A i \in 1 .. Len(stock) : ~stock[i].faceUp

\* When the operation that led to a is accepted it has put exactly one card
\* on each pile and taken as many cards off the stock as there are piles.
AddsOneToEachPile(a) ==
    Accepted(a) =>
        /\ \A c \in Cols :
              Len(a.gameState.tableau[c]) = Len(gameState.tableau[c]) + 1
        /\ Len(a.gameState.stock) = Len(gameState.stock) - NumCols

\* C35: in every reachable state of the 4-suit game the stock length is a
\* multiple of 10 between 0 and 50 and every stock card is face-down, so
\* every accepted stock deal, by a click on the stock or by auto-play, adds
\* exactly one card to each of the 10 piles and the case of fewer than 10
\* cards left is never reached.
C35_StockInWholeDeals ==
    /\ StockInWholeDeals(gameState.stock)
    /\ \A i \in 1 .. Len(history) : StockInWholeDeals(history[i].stock)
    /\ WithinPlay =>
          /\ AddsOneToEachPile(stockClick(App))
          /\ autoPlayBranch(gameState) = "deal" =>
                AddsOneToEachPile(autoPlayNextMove(App))

\* The stock has just been clicked for the fifth deal: the last ten cards
\* went one to each pile and the stock is empty.
C35_LastDealWitness ==
    /\ Len(history) > 0
    /\ Len(gameState.stock) = 0
    /\ Len(Last(history).stock) = NumCols
    /\ stockClick(Before).gameState = gameState
    /\ \A c \in Cols :
          Len(gameState.tableau[c]) = Len(Last(history).tableau[c]) + 1

\* ------------------------------------------------------------------ C36

\* The game state after k clicks on the stock.
RECURSIVE AfterClicks(_, _)
AfterClicks(gs, k) ==
    IF k = 0 THEN gs ELSE AfterClicks(klondikeStockClick(gs), k - 1)

\* Each of the next k clicks on the stock draws one card and leaves the
\* tableau and the foundations as they are.
RECURSIVE DrawsKeepBoard(_, _)
DrawsKeepBoard(gs, k) ==
    \/ k = 0
    \/ \A g \in {klondikeStockClick(gs)} :
          /\ g.tableau = gs.tableau
          /\ g.foundations = gs.foundations
          /\ Len(g.stock) = Len(gs.stock) - 1
          /\ Len(g.waste) = Len(gs.waste) + 1
          /\ g.waste[Len(g.waste)].faceUp
          /\ DrawsKeepBoard(g, k - 1)

\* C36: in the Klondike variant, drawing every card of an n-card stock to
\* the waste, one click each, and then recycling the waste restores the
\* stock to exactly its original card order with every card face-down and
\* leaves the waste empty; tableau and foundations are unchanged
\* throughout.  From a state whose waste already holds cards the stock that
\* comes back is the present stock followed by the waste in reverse.
C36_DrawAllThenRecycleRestoresStock ==
    /\ DrawsKeepBoard(gameState, Len(gameState.stock))
    /\ \A drawn \in {AfterClicks(gameState, Len(gameState.stock))} :
          /\ drawn.stock = << >>
          /\ Len(drawn.waste) = Len(gameState.waste) + Len(gameState.stock)
          /\ \A back \in {klondikeStockClick(drawn)} :
                /\ back.waste = << >>
                /\ \A i \in 1 .. Len(back.stock) : ~back.stock[i].faceUp
                /\ back.stock = gameState.stock \o Reversed(FaceDownAll(gameState.waste))
                /\ gameState.waste = << >> => back.stock = gameState.stock
                /\ back.tableau = gameState.tableau
                /\ back.foundations = gameState.foundations
                /\ \E fresh \in KlondikeInitialStates : back.stock = fresh.stock

\* Every card of the stock has been drawn after a card of the tableau was
\* moved: the stock is empty, the waste holds the 24 cards face-up, and the
\* next click recycles them into a stock of 24 face-down cards.
C36_StockDrawnOutWitness ==
    /\ gameState.stock = << >>
    /\ Len(gameState.waste) = Len(SUITS) * Len(RANKS) - KlondikeDealStart(KlondikeCols)
    /\ \A i \in 1 .. Len(gameState.waste) : gameState.waste[i].faceUp
    /\ KlondikeFlips(gameState) > 0
    /\ Len(klondikeStockClick(gameState).stock) = Len(gameState.waste)
    /\ klondikeStockClick(gameState).waste = << >>

====
